---------------------------- MODULE Spec2Model ----------------------------
(***************************************************************************)
(* A model of the airport restroom simulator and of the cleaning crew      *)
(* optimizer (src/src/cleaning_crew_optimizer.py, src/src/simulator.py,    *)
(* src/src/queue_dynamics.py).                                              *)
(*                                                                         *)
(* Units of the optimizer.  Times are integer seconds.  Arrival rates are  *)
(* in 1/1000 pax/s, queue lengths in 1/10 pax, supplies in 1/10 percent,   *)
(* skill levels in 1/10, work time in 1/6 minute, passenger impact in 1/60 *)
(* point and assignment scores in 1/600 point (team scores in 1/3600), so  *)
(* that every comparison the code makes on floats is made here on          *)
(* integers.  The units of the simulator are given where its parameters    *)
(* are defined.                                                            *)
(***************************************************************************)
EXTENDS Integers, Sequences, FiniteSets, TLC

(***************************************************************************)
(* Bounds of the model.                                                    *)
(***************************************************************************)
\* time steps of a run that are explored, and non-quiet usage readings in them
NSteps == 9
MaxEvents == 2

\* the calls of run_optimization on one optimizer
MaxRuns == 2
\* time steps of a simulator run
SimSteps == 6
\* candidate facilities of a cost map a choice rule is called with
MaxKeys == 3

(***************************************************************************)
(* Generic helpers.                                                        *)
(***************************************************************************)
Range(s) == {s[i] : i \in DOMAIN s}

Min2(a, b) == IF a <= b THEN a ELSE b

Max2(a, b) == IF a >= b THEN a ELSE b

Abs(a) == IF a < 0 THEN -a ELSE a

CeilDiv(a, b) == (a + b - 1) \div b

InSeq(x, s) == \E i \in DOMAIN s : s[i] = x

\* list.remove(x): drops the first occurrence of x
RemoveFirst(s, x) ==
    IF ~InSeq(x, s) THEN s
    ELSE LET k == CHOOSE i \in DOMAIN s : s[i] = x /\ \A j \in 1..(i-1) : s[j] # x
         IN  SubSeq(s, 1, k-1) \o SubSeq(s, k+1, Len(s))

Count(s, x) == Cardinality({i \in DOMAIN s : s[i] = x})

None == -1

(***************************************************************************)
(* The optimizer's inputs: the restrooms, dt, and the crew configuration.  *)
(* Capacities are in 1/100 pax/s.                                          *)
(***************************************************************************)
RestroomIds == <<"R1", "R2">>

Restrooms == Range(RestroomIds)

restrooms ==
    [r \in Restrooms |->
        IF r = "R1" THEN [floor |-> 2, x |-> 0, y |-> 30,
                          capacity_M |-> 20, capacity_F |-> 20]
                    ELSE [floor |-> 2, x |-> 40, y |-> 30,
                          capacity_M |-> 15, capacity_F |-> 15]]

Dt == 5 * 60

simulation_duration == 2 * 3600

\* len(self.time_steps), of np.arange(0, simulation_duration, dt)
NumTimeSteps == CeilDiv(simulation_duration, Dt)

\* the configuration file: the crew of _get_default_config, half-hour cleaning
\* intervals, five-minute routine cleanings, forty percent of the supplies per
\* cleaning
crew_members ==
    << [shift_start |-> 0,    shift_end |-> 8 * 3600,  skill_level |-> 18,
        hourly_rate |-> 22, base_location |-> "Base_1"],
       [shift_start |-> 1800, shift_end |-> 17 * 1800, skill_level |-> 15,
        hourly_rate |-> 19, base_location |-> "Base_2"],
       [shift_start |-> 0,    shift_end |-> 5 * 3600,  skill_level |-> 20,
        hourly_rate |-> 25, base_location |-> "Base_2"] >>

Crew == DOMAIN crew_members

cleaning_intervals ==
    [high_traffic |-> 1800, medium_traffic |-> 1800, low_traffic |-> 1800]

cleaning_durations ==
    [routine |-> 5, emergency |-> 25, call_in |-> 20, deep_clean |-> 45,
     usage_based |-> 5]

supply_depot_location == "Base_2"

supplies_per_cleaning == 10 * 40

restock_time == 10 * 60

usage_threshold_for_cleaning == 10 * 15

peak_demand_threshold == 50


(***************************************************************************)
(* Pure functions of CleaningCrewOptimizer.                                *)
(***************************************************************************)
\* a variant that puts a location it does not know on floor 0
LocationFloorGround(loc) ==
    CASE loc = "Base_1" -> 1
      [] loc = "Base_2" -> 2
      [] loc = "Base_3" -> 3
      [] loc \in Restrooms -> restrooms[loc].floor
      [] OTHER -> 0

\* the floor of a location, as _calculate_travel_time reads it
LocationFloor(loc) ==
    CASE loc = "Base_1" -> 1
      [] loc = "Base_2" -> 2
      [] loc = "Base_3" -> 3
      [] loc \in Restrooms -> restrooms[loc].floor
      [] OTHER -> 1

\* a variant without travel inside one location
_calculate_travel_time_between(from_location, to_location) ==
    IF from_location = to_location THEN 0
    ELSE 180 + Abs(LocationFloor(to_location) - LocationFloor(from_location))
               * 60

_calculate_travel_time(from_location, to_location) ==
    180 + Abs(LocationFloor(to_location) - LocationFloor(from_location)) * 60

_get_bathroom_max_cleaners(restroom_id) ==
    LET total_capacity == restrooms[restroom_id].capacity_M
                          + restrooms[restroom_id].capacity_F
    IN  IF total_capacity > 50 THEN 3
        ELSE IF total_capacity > 35 THEN 2
        ELSE 1

\* supplies a task of this type needs and consumes, in 1/10 percent
SuppliesFor(cleaning_type) ==
    CASE cleaning_type = "deep_clean" -> supplies_per_cleaning * 2
      [] cleaning_type = "emergency"  -> (supplies_per_cleaning * 3) \div 2
      [] OTHER -> supplies_per_cleaning

_check_crew_supplies(c, task) ==
    c.supplies_remaining >= SuppliesFor(task.cleaning_type)

\* a variant that looks at the shift only
_is_crew_available_on_shift(c, current_time) ==
    ~(current_time < c.shift_start \/ current_time > c.shift_end)

_is_crew_available(c, current_time) ==
    IF current_time < c.shift_start \/ current_time > c.shift_end THEN FALSE
    ELSE IF c.status \in {"cleaning", "traveling", "break"}
            /\ c.current_task_end_time > current_time THEN FALSE
    ELSE TRUE

\* a variant that does not look at the supplies
_can_crew_handle_task_in_time(c, task, current_time) ==
    LET travel_time == _calculate_travel_time(c.current_location, task.restroom_id)
        completion_time == current_time + travel_time + task.estimated_duration * 60
    IN  IF completion_time > task.deadline
        THEN IF task.priority >= 4
             THEN ~(completion_time > task.deadline + 1800)
             ELSE FALSE
        ELSE TRUE

_can_crew_handle_task(c, task, current_time) ==
    LET travel_time == _calculate_travel_time(c.current_location, task.restroom_id)
        completion_time == current_time + travel_time + task.estimated_duration * 60
    IN  IF ~_check_crew_supplies(c, task) THEN FALSE
        ELSE IF completion_time > task.deadline
        THEN IF task.priority >= 4
             THEN ~(completion_time > task.deadline + 1800)
             ELSE FALSE
        ELSE TRUE

\* _calculate_passenger_impact, in 1/60 point
_calculate_passenger_impact(arrival_rate, queue_length, waiting_time) ==
    9 * Min2(arrival_rate, 200) + 24 * Min2(queue_length, 100)
      + 3 * Min2(waiting_time, 600)

\* 1 / n^0.7 in 1/100000
InvPow07(n) ==
    CASE n = 1 -> 100000
      [] n = 2 -> 61557
      [] n = 3 -> 46346
      [] OTHER -> 37893

\* capacity reduction of n cleaners, in 1/10
CapacityReduction(n) == Min2(3 * n, 10)

\* 60 * _calculate_disruption_cost for one cleaner and the unadjusted duration
DisruptionSingle60(demand, duration) ==
    54 * demand * duration
      + (IF demand > peak_demand_threshold THEN 120 * demand ELSE 0)

\* _calculate_assignment_score, in 1/600 point
_calculate_assignment_score(c, task, current_time) ==
    LET skill == IF task.cleaning_type = "deep_clean" THEN c.skill_level * 1200
                 ELSE IF task.priority >= 4 THEN c.skill_level * 900
                 ELSE 0
        travel_time == _calculate_travel_time(c.current_location, task.restroom_id)
        urgency == IF task.deadline - current_time < 1800 THEN 18000 ELSE 0
        cost == 5 * c.hourly_rate * task.estimated_duration
    IN  skill - 1200 * travel_time + urgency - cost + 3 * task.passenger_impact_score

_calculate_assignment_score_with_disruption(c, task, current_time, demand) ==
    _calculate_assignment_score(c, task, current_time)
      - DisruptionSingle60(demand, task.estimated_duration)

\* 6 * 600 * _calculate_team_score of the crew records in combo
RECURSIVE SumOver(_, _)
SumOver(s, i) == IF i > Len(s) THEN 0 ELSE s[i] + SumOver(s, i + 1)

_calculate_team_score(combo, task, current_time, demand) ==
    LET n == Len(combo)
        scores == [i \in 1..n |-> _calculate_assignment_score(combo[i], task, current_time)]
        skills == [i \in 1..n |-> combo[i].skill_level]
        base == (6 * SumOver(scores, 1)) \div n
        efficiency_bonus == 36000 * n
        skill_bonus == (1800 * SumOver(skills, 1)) \div n
        affected == (demand * task.estimated_duration * CapacityReduction(n)
                       * (InvPow07(n) \div 100)) \div 1000
        disruption_penalty ==
            216 * affected
              + (IF demand > peak_demand_threshold THEN 1440 * demand ELSE 0)
    IN  base + efficiency_bonus + skill_bonus - disruption_penalty

\* seconds a team of n needs: estimated_duration / n^0.7 minutes, rounded up to
\* the next second (every time it is compared with is a whole second)
AdjustedSeconds(estimated_duration, n) ==
    CeilDiv(estimated_duration * 60 * InvPow07(n), 100000)

_calculate_restock_time(c) ==
    _calculate_travel_time(c.current_location, supply_depot_location)
      + restock_time
      + _calculate_travel_time(supply_depot_location, c.current_location)


(***************************************************************************)
(* The optimizer's state.                                                  *)
(***************************************************************************)
VARIABLES
    t,                      \* index of the time step run_optimization is at
    pc,                     \* position inside the body of its loop
    crew,                   \* crew_members: crew id -> CleaningCrewMember
    cleaning_tasks,         \* list of CleaningTask
    completed_tasks,        \* list of (indices of) the completed tasks
    active_cleanings,       \* restroom -> list of task ids
    restroom_usage_counts,  \* restroom -> passengers since the last reset, 1/10
    last_cleaning_time,     \* restroom -> seconds
    call_in_task_counter,
    emergency_task_counter,
    demand,                 \* the usage data of step t: restroom -> condition
    urgent,                 \* urgent tasks of this step not yet handled
    readings,               \* history: the non-quiet conditions of the usage data
    job,                    \* history: what each crew member was last sent to do
    preemptions,            \* history: the calls of _preempt_crew_task of this step
    executed,               \* history: the entries execute_assignments was given
    crew_assignments,       \* results['crew_assignments']
    run                     \* history: the number of the call of run_optimization

optVars == <<t, pc, crew, cleaning_tasks, completed_tasks, active_cleanings,
             restroom_usage_counts, last_cleaning_time, call_in_task_counter,
             emergency_task_counter, demand, urgent, readings, job,
             preemptions, executed, crew_assignments, run>>

(***************************************************************************)
(* The simulator's state.                                                  *)
(***************************************************************************)
VARIABLES
    flights,            \* the flight schedule of the configuration
    assignment_method,  \* the argument of run_simulation
    t_idx,              \* index of the time step run_simulation is at
    sim_pc,             \* position inside the body of its loop
    lambda_r,           \* section -> arrival rates by time index, 1/1000 pax/s
    L_r,                \* section -> queue lengths by time index, 1/1000 pax
    w_r,                \* section -> waiting times by time index, 1/1000 s
    entry_inflows,      \* entry point -> inflow of the step, 1/1000 pax/s
    prev_flows,         \* prev_flows of _assign_flows_iteratively
    iteration,          \* iterations of its loop that were completed
    raw_queue,          \* history: new_queue of the last queue update before
                        \* it is snapped to zero, by section
    last_change         \* history: max_change of the last iteration

simVars == <<flights, assignment_method, t_idx, sim_pc, lambda_r, L_r, w_r,
             entry_inflows, prev_flows, iteration, raw_queue, last_change>>

(***************************************************************************)
(* A single call of one of the programs' functions: its arguments and what *)
(* it returned.                                                            *)
(***************************************************************************)
VARIABLES
    fn_pc,      \* "idle", "call" before the call, "return" after it
    fn_in,      \* the function called and its arguments
    fn_out      \* the value returned

fnVars == <<fn_pc, fn_in, fn_out>>

current_time == t * Dt

\* a variant that does not look at completion_time
CurrentTaskOfCompletedToo(tasks, c) ==
    LET listed == {i \in DOMAIN tasks : InSeq(c, tasks[i].assigned_crew)}
    IN  IF listed = {} THEN 0 ELSE CHOOSE i \in listed : \A j \in listed : i <= j

\* index of the first task that lists the crew member and is not completed, 0 if
\* there is none: the task the code takes to be the member's current task
CurrentTaskOf(tasks, c) ==
    LET open == {i \in DOMAIN tasks : InSeq(c, tasks[i].assigned_crew)
                                      /\ tasks[i].completion_time = None}
    IN  IF open = {} THEN 0 ELSE CHOOSE i \in open : \A j \in open : i <= j

\* index of the first task with this id (execute_assignments looks tasks up by id)
TaskById(tasks, id) ==
    CHOOSE i \in DOMAIN tasks : tasks[i].task_id = id
                                /\ \A j \in 1..(i-1) : tasks[j].task_id # id

(***************************************************************************)
(* __init__: the crew from the configuration, the routine cleanings.       *)
(***************************************************************************)
_initialize_crew ==
    [c \in Crew |->
        [crew_id |-> c,
         status |-> "idle",
         current_location |-> crew_members[c].base_location,
         shift_start |-> crew_members[c].shift_start,
         shift_end |-> crew_members[c].shift_end,
         hourly_rate |-> crew_members[c].hourly_rate,
         skill_level |-> crew_members[c].skill_level,
         current_task_end_time |-> 0,
         total_work_time |-> 0,
         supplies_remaining |-> 1000]]

RoutineInterval(restroom_id) ==
    LET total_capacity == restrooms[restroom_id].capacity_M
                          + restrooms[restroom_id].capacity_F
    IN  IF total_capacity > 50 THEN cleaning_intervals.high_traffic
        ELSE IF total_capacity > 35 THEN cleaning_intervals.medium_traffic
        ELSE cleaning_intervals.low_traffic

\* how many routine cleanings of a restroom start before simulation_duration
RoutineCount(restroom_id) ==
    CeilDiv(simulation_duration, RoutineInterval(restroom_id)) - 1

RECURSIVE _schedule_routine_cleanings(_, _)
_schedule_routine_cleanings(tasks, k) ==
    IF k > Len(RestroomIds) THEN tasks
    ELSE LET r == RestroomIds[k]
             new == [i \in 1..RoutineCount(r) |->
                       [task_id |-> [kind |-> "ROUTINE", n |-> Len(tasks) + i],
                        restroom_id |-> r,
                        cleaning_type |-> "routine",
                        priority |-> 2,
                        estimated_duration |-> cleaning_durations.routine,
                        required_time |-> i * RoutineInterval(r),
                        deadline |-> i * RoutineInterval(r) + 1800,
                        created_time |-> 0,
                        assigned_crew |-> <<>>,
                        completion_time |-> None,
                        passenger_impact_score |-> 0]]
         IN  _schedule_routine_cleanings(tasks \o new, k + 1)

Quiet == [lam |-> 0, L |-> 0, w |-> 0, rnd |-> FALSE]

\* the optimizer after __init__ with the crew given
OptInitWith(crew_given) ==
    /\ t = 0
    /\ pc = "update"
    /\ crew = crew_given
    /\ cleaning_tasks = _schedule_routine_cleanings(<<>>, 1)
    /\ completed_tasks = <<>>
    /\ active_cleanings = [r \in Restrooms |-> <<>>]
    /\ restroom_usage_counts = [r \in Restrooms |-> 0]
    /\ last_cleaning_time = [r \in Restrooms |-> 0]
    /\ call_in_task_counter = 1000
    /\ emergency_task_counter = 2000
    /\ demand = [r \in Restrooms |-> Quiet]
    /\ urgent = <<>>
    /\ readings = <<>>
    /\ job = [c \in Crew |-> 0]
    /\ preemptions = <<>>
    /\ executed = <<>>
    /\ crew_assignments = <<>>
    /\ run = 1

OptInit == OptInitWith(_initialize_crew)

(***************************************************************************)
(* update_crew_status(current_time).  S bundles the fields the loop over   *)
(* the crew members reads and writes.                                      *)
(***************************************************************************)
_consume_supplies(c, task) ==
    Max2(0, c.supplies_remaining - SuppliesFor(task.cleaning_type))

\* a variant that waits until nothing is left
NeedsRestockWhenEmpty(supplies_remaining) == supplies_remaining <= 0

\* does the member, with these supplies left, go to restock?
NeedsRestock(supplies_remaining) == supplies_remaining < supplies_per_cleaning

\* a variant that adds a full load to what is left
_restock_crew_supplies_on_top(c, now) ==
    [c EXCEPT !.status = "traveling",
              !.current_task_end_time = now + _calculate_restock_time(c),
              !.supplies_remaining = @ + 1000]

_restock_crew_supplies(c, now) ==
    [c EXCEPT !.status = "traveling",
              !.current_task_end_time = now + _calculate_restock_time(c),
              !.supplies_remaining = 1000]

\* a variant that waits until every member the task lists is idle
AllCrewIdle(S, task, now) ==
    \A i \in DOMAIN task.assigned_crew :
        S.crew[task.assigned_crew[i]].status = "idle"

\* all crew members the task lists have their end time behind them
AllCrewFinished(S, task, now) ==
    \A i \in DOMAIN task.assigned_crew :
        ~(S.crew[task.assigned_crew[i]].current_task_end_time > now)

\* the task is marked completed and leaves active_cleanings
MarkCompleted(S, ti, now) ==
    LET task == S.tasks[ti]
    IN  [S EXCEPT !.tasks[ti].completion_time = now,
                  !.completed = Append(@, ti),
                  !.active[task.restroom_id] = RemoveFirst(@, task.task_id)]

UpdateOneCrew(S, c, now) ==
    IF ~(S.crew[c].current_task_end_time > 0
         /\ now >= S.crew[c].current_task_end_time)
    THEN S
    ELSE
      LET ti == CurrentTaskOf(S.tasks, c)
          S1 == IF ti # 0 /\ AllCrewFinished(S, S.tasks[ti], now)
                THEN MarkCompleted(S, ti, now) ELSE S
          idle == [S1.crew[c] EXCEPT !.status = "idle", !.current_task_end_time = 0]
      IN  IF ti = 0
          THEN [S1 EXCEPT !.crew[c] = idle, !.job[c] = 0]
          ELSE
            LET task == S1.tasks[ti]
                worked == [idle EXCEPT
                             !.total_work_time =
                                 @ + (6 * task.estimated_duration) \div Len(task.assigned_crew),
                             !.supplies_remaining = _consume_supplies(idle, task)]
                restock == NeedsRestock(worked.supplies_remaining)
            IN  [S1 EXCEPT
                   !.crew[c] = IF restock THEN _restock_crew_supplies(worked, now)
                               ELSE worked,
                   !.job[c] = IF restock THEN -1 ELSE 0,
                   !.last_cleaning[task.restroom_id] = now]

RECURSIVE update_crew_status(_, _, _)
update_crew_status(S, c, now) ==
    IF c > Len(crew_members) THEN S
    ELSE update_crew_status(UpdateOneCrew(S, c, now), c + 1, now)

Bundle ==
    [crew |-> crew, tasks |-> cleaning_tasks, completed |-> completed_tasks,
     active |-> active_cleanings, last_cleaning |-> last_cleaning_time, job |-> job,
     preemptions |-> preemptions, executed |-> executed]

Unbundle(S) ==
    /\ crew' = S.crew
    /\ cleaning_tasks' = S.tasks
    /\ completed_tasks' = S.completed
    /\ active_cleanings' = S.active
    /\ last_cleaning_time' = S.last_cleaning
    /\ job' = S.job
    /\ preemptions' = S.preemptions
    /\ executed' = S.executed

UpdateCrewStatus ==
    /\ pc = "update"
    /\ \E S \in {update_crew_status([Bundle EXCEPT !.preemptions = <<>>],
                                     1, current_time)} : Unbundle(S)
    /\ pc' = "detect"
    /\ UNCHANGED <<t, restroom_usage_counts, call_in_task_counter,
                   emergency_task_counter, demand, urgent, readings,
                   crew_assignments>>
    /\ UNCHANGED <<run, simVars, fnVars>>


(***************************************************************************)
(* The usage data of one step, per restroom: total arrival rate of its two *)
(* sections (lam), their total queue length (L), their maximum waiting     *)
(* time (w), and whether random.random() fell below 0.0003 (rnd).          *)
(***************************************************************************)
Conditions ==
    { Quiet,
      [lam |-> 30, L |-> 0,  w |-> 0,   rnd |-> FALSE],
      [lam |-> 90, L |-> 0,  w |-> 0,   rnd |-> FALSE],
      [lam |-> 0,  L |-> 0,  w |-> 90,  rnd |-> FALSE],
      [lam |-> 0,  L |-> 0,  w |-> 150, rnd |-> FALSE],
      [lam |-> 0,  L |-> 0,  w |-> 0,   rnd |-> TRUE] }

\* the non-quiet conditions of the usage data d of the step at time now
NonQuiet(d, now) ==
    SelectSeq([k \in DOMAIN RestroomIds |->
                  [time |-> now, restroom |-> RestroomIds[k],
                   cond |-> d[RestroomIds[k]]]],
              LAMBDA x : x.cond # Quiet)

\* _update_restroom_usage: passengers of this step, in 1/10
UsageAfter(usage, d) ==
    [r \in Restrooms |-> usage[r] + (d[r].lam * Dt) \div 100]

\* _check_usage_based_cleaning_needs over the restrooms k.. ; U = [tasks, usage]
RECURSIVE _check_usage_based_cleaning_needs(_, _, _, _)
_check_usage_based_cleaning_needs(U, k, task_id, now) ==
    IF k > Len(RestroomIds) THEN U
    ELSE LET r == RestroomIds[k]
         IN  IF U.usage[r] >= usage_threshold_for_cleaning
                /\ now - last_cleaning_time[r] > 1800
             THEN _check_usage_based_cleaning_needs(
                    [tasks |-> Append(U.tasks,
                        [task_id |-> [kind |-> "USAGE", n |-> task_id],
                         restroom_id |-> r,
                         cleaning_type |-> "usage_based",
                         priority |-> 2,
                         estimated_duration |-> cleaning_durations.routine,
                         required_time |-> now,
                         deadline |-> now + 3600,
                         created_time |-> now,
                         assigned_crew |-> <<>>,
                         completion_time |-> None,
                         passenger_impact_score |-> Min2(8 * U.usage[r], 3000)]),
                     usage |-> [U.usage EXCEPT ![r] = 0]],
                    k + 1, task_id + 1, now)
             ELSE _check_usage_based_cleaning_needs(U, k + 1, task_id, now)

\* a variant in which a waiting time of 90 s is below every threshold
SeverityFrom100(cond) ==
    IF cond.L > 15 \/ cond.w > 120 THEN 5
    ELSE IF cond.rnd THEN 5
    ELSE IF cond.L > 8 \/ cond.w > 100 THEN 4
    ELSE IF cond.lam > 80 THEN 3
    ELSE 0

\* a variant that looks at the arrival rate first
SeverityRateFirst(cond) ==
    IF cond.lam > 80 THEN 3
    ELSE IF cond.L > 15 \/ cond.w > 120 THEN 5
    ELSE IF cond.rnd THEN 5
    ELSE IF cond.L > 8 \/ cond.w > 60 THEN 4
    ELSE 0

\* the priority the conditions of a restroom call for, 0 when none
Severity(cond) ==
    IF cond.L > 15 \/ cond.w > 120 THEN 5
    ELSE IF cond.rnd THEN 5
    ELSE IF cond.L > 8 \/ cond.w > 60 THEN 4
    ELSE IF cond.lam > 80 THEN 3
    ELSE 0

\* a variant that looks back 600 s only
RecentUrgentWithin600(tasks, restroom_id, now) ==
    \E i \in DOMAIN tasks :
        /\ tasks[i].restroom_id = restroom_id
        /\ tasks[i].priority >= 3
        /\ Abs(tasks[i].created_time - now) < 600
        /\ tasks[i].completion_time = None

\* is there an open urgent task of the restroom created less than 1800 s away?
RecentUrgent(tasks, restroom_id, now) ==
    \E i \in DOMAIN tasks :
        /\ tasks[i].restroom_id = restroom_id
        /\ tasks[i].priority >= 3
        /\ Abs(tasks[i].created_time - now) < 1800
        /\ tasks[i].completion_time = None

\* _check_for_real_time_call_ins over the restrooms k.. ;
\* N = [new, call_in, emergency]: the new tasks and the two counters
RECURSIVE _check_for_real_time_call_ins(_, _, _, _, _)
_check_for_real_time_call_ins(N, k, tasks, d, now) ==
    IF k > Len(RestroomIds) THEN N
    ELSE
      LET r == RestroomIds[k]
          priority == Severity(d[r])
          emergency_triggered == priority = 5
      IN  IF priority = 0 \/ RecentUrgent(tasks, r, now)
          THEN _check_for_real_time_call_ins(N, k + 1, tasks, d, now)
          ELSE _check_for_real_time_call_ins(
                 [new |-> Append(N.new,
                    [task_id |-> IF emergency_triggered
                                 THEN [kind |-> "EMERGENCY", n |-> N.emergency]
                                 ELSE [kind |-> "CALLIN", n |-> N.call_in],
                     restroom_id |-> r,
                     cleaning_type |-> IF emergency_triggered THEN "emergency"
                                       ELSE "call_in",
                     priority |-> priority,
                     estimated_duration |-> IF emergency_triggered
                                            THEN cleaning_durations.emergency
                                            ELSE cleaning_durations.call_in,
                     required_time |-> now,
                     deadline |-> IF emergency_triggered THEN now + 1800
                                  ELSE now + 3600,
                     created_time |-> now,
                     assigned_crew |-> <<>>,
                     completion_time |-> None,
                     passenger_impact_score |->
                         _calculate_passenger_impact(d[r].lam, d[r].L, d[r].w)]),
                  call_in |-> IF emergency_triggered THEN N.call_in
                              ELSE N.call_in + 1,
                  emergency |-> IF emergency_triggered THEN N.emergency + 1
                                ELSE N.emergency],
                 k + 1, tasks, d, now)

\* lines 732-744 of run_optimization with the usage data d of the step: usage
\* based and urgent tasks are created and appended to cleaning_tasks
DetectWith(d) ==
    LET U == _check_usage_based_cleaning_needs(
               [tasks |-> cleaning_tasks,
                usage |-> UsageAfter(restroom_usage_counts, d)],
               1, Len(cleaning_tasks) + 1, current_time)
        N == _check_for_real_time_call_ins(
               [new |-> <<>>, call_in |-> call_in_task_counter,
                emergency |-> emergency_task_counter],
               1, U.tasks, d, current_time)
    IN  /\ demand' = d
        /\ readings' = readings \o NonQuiet(d, current_time)
        /\ restroom_usage_counts' = U.usage
        /\ cleaning_tasks' = U.tasks \o N.new
        /\ call_in_task_counter' = N.call_in
        /\ emergency_task_counter' = N.emergency
        /\ urgent' = [i \in 1..Len(N.new) |-> Len(U.tasks) + i]
        /\ pc' = IF N.new # <<>> THEN "reassign" ELSE "batch"
        /\ UNCHANGED <<t, crew, completed_tasks, active_cleanings,
                       last_cleaning_time, job, preemptions, executed,
                       crew_assignments>>
        /\ UNCHANGED <<run, simVars, fnVars>>

DetectUrgent ==
    /\ pc = "detect"
    /\ \E d \in [Restrooms -> Conditions] :
         /\ Len(readings) + Len(NonQuiet(d, current_time)) <= MaxEvents
         /\ DetectWith(d)

(***************************************************************************)
(* execute_assignments.                                                    *)
(***************************************************************************)
\* the crew members (ids, in the order of the crew list) that satisfy P
RECURSIVE SelectCrew(_, _)
SelectCrew(P(_), c) ==
    IF c > Len(crew_members) THEN <<>>
    ELSE (IF P(c) THEN <<c>> ELSE <<>>) \o SelectCrew(P, c + 1)

\* first position of s whose score is the largest (Python's max and the loops
\* that keep the first best)
FirstBest(s, score(_)) ==
    CHOOSE i \in DOMAIN s :
        /\ \A j \in DOMAIN s : score(s[j]) <= score(s[i])
        /\ \A j \in 1..(i-1) : score(s[j]) < score(s[i])

\* one crew member of a team of num_cleaners is sent to the task
SendCrew(S, ti, c, num_cleaners, now) ==
    LET task == S.tasks[ti]
        travel_time == _calculate_travel_time(S.crew[c].current_location,
                                              task.restroom_id)
    IN  [S EXCEPT
           !.crew[c].status = IF travel_time > 0 THEN "traveling" ELSE "cleaning",
           !.crew[c].current_task_end_time =
               now + travel_time + AdjustedSeconds(task.estimated_duration, num_cleaners),
           !.crew[c].current_location = task.restroom_id,
           !.job[c] = ti]

RECURSIVE SendTeam(_, _, _, _, _)
SendTeam(S, ti, crew_ids, k, now) ==
    IF k > Len(crew_ids) THEN S
    ELSE SendTeam(SendCrew(S, ti, crew_ids[k], Len(crew_ids), now),
                  ti, crew_ids, k + 1, now)

\* what execute_assignments was given for one entry, and the state of the crew
\* members when they were sent; interrupted: the task _preempt_crew_task took
\* the member from (0 if none)
ExecutedRecord(S, ti, crew_ids, now) ==
    [time |-> now, task |-> ti, task_id |-> S.tasks[ti].task_id,
     crew_ids |-> crew_ids,
     from |-> [k \in DOMAIN crew_ids |-> S.crew[crew_ids[k]].current_location],
     supplies |-> [k \in DOMAIN crew_ids |-> S.crew[crew_ids[k]].supplies_remaining],
     interrupted |-> 0]

\* one entry of the assignments dictionary is executed
ExecuteOne(S, task_id, crew_ids, now) ==
    LET ti == TaskById(S.tasks, task_id)
        S1 == SendTeam(S, ti, crew_ids, 1, now)
    IN  [S1 EXCEPT !.active[S.tasks[ti].restroom_id] = Append(@, task_id),
                   !.executed = Append(@, ExecutedRecord(S, ti, crew_ids, now))]

\* assignments: sequence of [task_id, crew_ids], in the dictionary's order
RECURSIVE execute_assignments(_, _, _, _)
execute_assignments(S, assignments, k, now) ==
    IF k > Len(assignments) THEN S
    ELSE execute_assignments(
           ExecuteOne(S, assignments[k].task_id, assignments[k].crew_ids, now),
           assignments, k + 1, now)

(***************************************************************************)
(* _handle_crew_reassignment.                                              *)
(***************************************************************************)
\* a variant that pushes the required time of the interrupted task forward from
\* its previous value
InterruptPushedForward(tasks, ti, c, now) ==
    LET left == RemoveFirst(tasks[ti].assigned_crew, c)
    IN  [tasks EXCEPT ![ti].assigned_crew = left,
                      ![ti].required_time = IF left = <<>> THEN @ + 1800 ELSE @]

\* the interrupted task loses the crew member; left without crew it is rescheduled
Interrupt(tasks, ti, c, now) ==
    LET left == RemoveFirst(tasks[ti].assigned_crew, c)
    IN  [tasks EXCEPT ![ti].assigned_crew = left,
                      ![ti].required_time = IF left = <<>> THEN now + 1800 ELSE @]

\* what a call of _preempt_crew_task found (ti: the interrupted task, 0 if
\* none) and what it left behind when it returned
PreemptionRecord(S, R, c, ti, ui, now) ==
    [crew |-> c, time |-> now, task |-> ti, urgent_task |-> ui,
     working_on |-> S.job[c],
     previous_required_time |-> IF ti = 0 THEN 0 ELSE S.tasks[ti].required_time,
     previous_crew |-> IF ti = 0 THEN <<>> ELSE S.tasks[ti].assigned_crew,
     required_time |-> IF ti = 0 THEN 0 ELSE R.tasks[ti].required_time,
     assigned_crew |-> IF ti = 0 THEN <<>> ELSE R.tasks[ti].assigned_crew,
     urgent_crew |-> R.tasks[ui].assigned_crew]

_preempt_crew_task(S, c, ui, now) ==
    LET ti == CurrentTaskOf(S.tasks, c)
        T1 == IF ti = 0 THEN S.tasks ELSE Interrupt(S.tasks, ti, c, now)
        S1 == [S EXCEPT !.tasks = [T1 EXCEPT ![ui].assigned_crew = <<c>>]]
        R  == ExecuteOne(S1, S1.tasks[ui].task_id, <<c>>, now)
    IN  [R EXCEPT !.preemptions = Append(@, PreemptionRecord(S, R, c, ti, ui, now)),
                  !.executed[Len(R.executed)].interrupted = ti]

\* a variant that also takes a crew member off a task of the same priority
_find_preemptable_crew_or_equal(S, ui, now) ==
    LET urgent_task == S.tasks[ui]
        IsCandidate(c) ==
            /\ S.crew[c].status \in {"cleaning", "traveling"}
            /\ CurrentTaskOf(S.tasks, c) # 0
            /\ S.tasks[CurrentTaskOf(S.tasks, c)].priority <= urgent_task.priority
            /\ _can_crew_handle_task(S.crew[c], urgent_task, now)
        candidates == SelectCrew(IsCandidate, 1)
        NegPriority(c) == 0 - S.tasks[CurrentTaskOf(S.tasks, c)].priority
    IN  IF candidates = <<>> THEN 0
        ELSE candidates[FirstBest(candidates, NegPriority)]

\* a busy crew member on a task of lower priority who can handle the urgent one;
\* 0 if there is none
_find_preemptable_crew(S, ui, now) ==
    LET urgent_task == S.tasks[ui]
        IsCandidate(c) ==
            /\ S.crew[c].status \in {"cleaning", "traveling"}
            /\ CurrentTaskOf(S.tasks, c) # 0
            /\ S.tasks[CurrentTaskOf(S.tasks, c)].priority < urgent_task.priority
            /\ _can_crew_handle_task(S.crew[c], urgent_task, now)
        candidates == SelectCrew(IsCandidate, 1)
        NegPriority(c) == 0 - S.tasks[CurrentTaskOf(S.tasks, c)].priority
    IN  IF candidates = <<>> THEN 0
        ELSE candidates[FirstBest(candidates, NegPriority)]

AssignDirect(S, ui, c, now) ==
    LET S1 == [S EXCEPT !.tasks[ui].assigned_crew = <<c>>]
    IN  ExecuteOne(S1, S1.tasks[ui].task_id, <<c>>, now)

\* the body of the loop of _handle_crew_reassignment for the urgent task ui
HandleUrgentTask(S, ui, now, d) ==
    LET urgent_task == S.tasks[ui]
        Score(c) == _calculate_assignment_score_with_disruption(
                        S.crew[c], urgent_task, now, d[urgent_task.restroom_id].lam)
        IsIdle(c) == /\ S.crew[c].status = "idle"
                     /\ _is_crew_available(S.crew[c], now)
                     /\ _can_crew_handle_task(S.crew[c], urgent_task, now)
        IsAvailable(c) == /\ _is_crew_available(S.crew[c], now)
                          /\ _can_crew_handle_task(S.crew[c], urgent_task, now)
        idle_crew == SelectCrew(IsIdle, 1)
        available_crew == SelectCrew(IsAvailable, 1)
    IN  IF idle_crew # <<>>
        THEN AssignDirect(S, ui, idle_crew[FirstBest(idle_crew, Score)], now)
        ELSE IF available_crew # <<>> /\ urgent_task.priority >= 4
        THEN LET best_crew == available_crew[FirstBest(available_crew, Score)]
             IN  IF S.crew[best_crew].status # "idle"
                 THEN _preempt_crew_task(S, best_crew, ui, now)
                 ELSE AssignDirect(S, ui, best_crew, now)
        ELSE IF urgent_task.priority >= 4
        THEN LET preemptable_crew == _find_preemptable_crew(S, ui, now)
             IN  IF preemptable_crew # 0
                 THEN _preempt_crew_task(S, preemptable_crew, ui, now)
                 ELSE S
        ELSE S

\* urgent_tasks: the indices of the new urgent tasks, handled in their order
RECURSIVE _handle_crew_reassignment(_, _, _, _, _)
_handle_crew_reassignment(S, urgent_tasks, k, now, d) ==
    IF k > Len(urgent_tasks) THEN S
    ELSE _handle_crew_reassignment(HandleUrgentTask(S, urgent_tasks[k], now, d),
                                   urgent_tasks, k + 1, now, d)

\* the logged event that holds the crew list of the task: the last one that
\* names it (0 if no event does)
LoggedEventOf(log, task_id) ==
    LET Names(e) == \E a \in DOMAIN log[e].assignments :
                        log[e].assignments[a].task_id = task_id
        events == {e \in DOMAIN log : Names(e)}
    IN  IF events = {} THEN 0 ELSE CHOOSE e \in events : \A f \in events : f <= e

\* a logged event holds the very list that optimize_crew_assignment stored in
\* task.assigned_crew (assignments.copy() copies the dictionary, not its
\* lists), so the remove() of _preempt_crew_task shows in the event
RECURSIVE LoggedListsAfter(_, _, _, _)
LoggedListsAfter(log, tasks, ps, k) ==
    IF k > Len(ps) THEN log
    ELSE LET p == ps[k]
             e == IF p.task = 0 THEN 0 ELSE LoggedEventOf(log, tasks[p.task].task_id)
             Shown(a) == IF a.task_id = tasks[p.task].task_id
                         THEN [a EXCEPT !.crew_ids = RemoveFirst(@, p.crew)]
                         ELSE a
         IN  LoggedListsAfter(
                 IF e = 0 THEN log
                 ELSE [log EXCEPT ![e].assignments =
                          [a \in DOMAIN @ |-> Shown(@[a])]],
                 tasks, ps, k + 1)

HandleReassignment ==
    /\ pc = "reassign"
    /\ \E S \in {_handle_crew_reassignment(Bundle, urgent, 1, current_time, demand)} :
         /\ Unbundle(S)
         /\ crew_assignments' =
               LoggedListsAfter(crew_assignments, S.tasks, S.preemptions, 1)
    /\ urgent' = <<>>
    /\ pc' = "batch"
    /\ UNCHANGED <<t, restroom_usage_counts, call_in_task_counter,
                   emergency_task_counter, demand, readings>>
    /\ UNCHANGED <<run, simVars, fnVars>>


(***************************************************************************)
(* optimize_crew_assignment.                                               *)
(***************************************************************************)
\* a variant that puts the lower priority first
KeyLessLowPriorityFirst(a, b, now) ==
    \/ a.priority < b.priority
    \/ /\ a.priority = b.priority
       /\ \/ a.deadline - now < b.deadline - now
          \/ /\ a.deadline = b.deadline
             /\ a.passenger_impact_score > b.passenger_impact_score

\* the sort key of a pending task: (-priority, deadline - now, -impact)
KeyLess(a, b, now) ==
    \/ a.priority > b.priority
    \/ /\ a.priority = b.priority
       /\ \/ a.deadline - now < b.deadline - now
          \/ /\ a.deadline = b.deadline
             /\ a.passenger_impact_score > b.passenger_impact_score

\* list.sort is stable: x goes behind every element that is not greater than it
RECURSIVE InsertSorted(_, _, _, _)
InsertSorted(sorted, x, tasks, now) ==
    IF sorted = <<>> THEN <<x>>
    ELSE IF KeyLess(tasks[x], tasks[Head(sorted)], now) THEN <<x>> \o sorted
    ELSE <<Head(sorted)>> \o InsertSorted(Tail(sorted), x, tasks, now)

\* a variant that leaves out the tasks whose required time has passed
IsPendingNotOverdue(task, now) ==
    /\ task.assigned_crew = <<>>
    /\ task.completion_time = None
    /\ task.required_time <= now + 1800
    /\ task.required_time >= now

\* is the task among the pending ones at time now?
IsPending(task, now) ==
    /\ task.assigned_crew = <<>>
    /\ task.completion_time = None
    /\ task.required_time <= now + 1800

RECURSIVE SortPending(_, _, _, _)
SortPending(sorted, k, tasks, now) ==
    IF k > Len(tasks) THEN sorted
    ELSE SortPending(
           IF IsPending(tasks[k], now)
           THEN InsertSorted(sorted, k, tasks, now) ELSE sorted,
           k + 1, tasks, now)

\* pending tasks (indices), sorted by priority and urgency
PendingTasks(tasks, now) == SortPending(<<>>, 1, tasks, now)

_get_current_active_cleaners(active, restroom_id) == Len(active[restroom_id])

\* a variant with one cleaner for every task of priority below 4
_determine_optimal_cleaner_count_single(task, max_available, d) ==
    IF task.priority >= 4 THEN Min2(max_available, 2) ELSE 1

_determine_optimal_cleaner_count(task, max_available, d) ==
    LET current_demand == d[task.restroom_id].lam
    IN  IF task.priority >= 4 THEN Min2(max_available, 2)
        ELSE IF 2 * current_demand < peak_demand_threshold THEN 1
        ELSE IF current_demand > peak_demand_threshold
        THEN (IF task.priority >= 3 THEN 1 ELSE 0)
        ELSE Min2(2, max_available)

\* itertools.combinations(s, k), in its order
RECURSIVE Combinations(_, _)
Combinations(s, k) ==
    IF k = 0 THEN << <<>> >>
    ELSE IF Len(s) < k THEN <<>>
    ELSE LET with == Combinations(Tail(s), k - 1)
         IN  [i \in 1..Len(with) |-> <<Head(s)>> \o with[i]]
               \o Combinations(Tail(s), k)

\* the combinations of every size 1..upto, smaller sizes first
RECURSIVE CombosUpTo(_, _, _)
CombosUpTo(s, size, upto) ==
    IF size > upto THEN <<>>
    ELSE Combinations(s, size) \o CombosUpTo(s, size + 1, upto)

\* the crew ids chosen for the task among available_crew (ids), <<>> if none
_find_best_crew_combination(S, ti, available_crew, target_cleaners, now, d) ==
    LET task == S.tasks[ti]
        lam == d[task.restroom_id].lam
        suitable_crew == SelectSeq(available_crew,
                            LAMBDA c : _can_crew_handle_task(S.crew[c], task, now))
        Score(c) == _calculate_assignment_score_with_disruption(S.crew[c], task, now, lam)
        combos == CombosUpTo(suitable_crew, 1, Min2(target_cleaners, Len(suitable_crew)))
        TeamScore(combo) ==
            _calculate_team_score([i \in 1..Len(combo) |-> S.crew[combo[i]]],
                                  task, now, lam)
    IN  IF target_cleaners <= 0 \/ available_crew = <<>> THEN <<>>
        ELSE IF suitable_crew = <<>> THEN <<>>
        ELSE IF target_cleaners = 1
        THEN <<suitable_crew[FirstBest(suitable_crew, Score)]>>
        ELSE combos[FirstBest(combos, TeamScore)]

\* free cleaner slots of the task's restroom, as the assignment loop counts them
AvailableSlots(S, task) ==
    _get_bathroom_max_cleaners(task.restroom_id)
      - _get_current_active_cleaners(S.active, task.restroom_id)

\* the loop over the sorted pending tasks; A = [S, pool, assignments]
RECURSIVE AssignPending(_, _, _, _, _)
AssignPending(A, pending, k, now, d) ==
    IF k > Len(pending) THEN A
    ELSE
      LET ti == pending[k]
          task == A.S.tasks[ti]
          available_slots == AvailableSlots(A.S, task)
          optimal_cleaners == _determine_optimal_cleaner_count(task, available_slots, d)
          best_crew_combo ==
              IF available_slots <= 0 THEN <<>>
              ELSE _find_best_crew_combination(A.S, ti, A.pool, optimal_cleaners, now, d)
      IN  IF best_crew_combo = <<>>
          THEN AssignPending(A, pending, k + 1, now, d)
          ELSE AssignPending(
                 [S |-> [A.S EXCEPT !.tasks[ti].assigned_crew = best_crew_combo],
                  pool |-> SelectSeq(A.pool, LAMBDA c : ~InSeq(c, best_crew_combo)),
                  assignments |-> Append(A.assignments,
                                    [task_id |-> task.task_id,
                                     crew_ids |-> best_crew_combo])],
                 pending, k + 1, now, d)

optimize_crew_assignment(S, now, d) ==
    LET IsAvailable(c) == _is_crew_available(S.crew[c], now)
    IN  AssignPending([S |-> S, pool |-> SelectCrew(IsAvailable, 1),
                       assignments |-> <<>>],
                      PendingTasks(S.tasks, now), 1, now, d)

\* lines 749-758 of run_optimization, and the loop moving on to the next step
BatchAssign ==
    /\ pc = "batch"
    /\ \E A \in {optimize_crew_assignment(Bundle, current_time, demand)} :
         /\ \E S \in {execute_assignments(A.S, A.assignments, 1, current_time)} :
               Unbundle(S)
         /\ crew_assignments' =
               IF A.assignments # <<>>
               THEN Append(crew_assignments,
                           [time |-> current_time, assignments |-> A.assignments])
               ELSE crew_assignments
    /\ t' = t + 1
    /\ pc' = IF t + 1 < Min2(NSteps, NumTimeSteps) THEN "update" ELSE "done"
    /\ demand' = [r \in Restrooms |-> Quiet]
    /\ UNCHANGED <<restroom_usage_counts, call_in_task_counter,
                   emergency_task_counter, urgent, readings>>
    /\ UNCHANGED <<run, simVars, fnVars>>

\* run_optimization is called once more on the same optimizer: results is a new
\* dictionary, process_bathroom_usage_profile sets the two counters, and the
\* loop starts over at the first time step
RunAgain ==
    /\ pc = "done"
    /\ run < MaxRuns
    /\ run' = run + 1
    /\ t' = 0
    /\ pc' = "update"
    /\ call_in_task_counter' = 1000
    /\ emergency_task_counter' = 2000
    /\ crew_assignments' = <<>>
    /\ UNCHANGED <<crew, cleaning_tasks, completed_tasks, active_cleanings,
                   restroom_usage_counts, last_cleaning_time, demand, urgent,
                   readings, job, preemptions, executed>>
    /\ UNCHANGED <<simVars, fnVars>>

\* the keys of the results dictionary as run_optimization creates it
results_keys_initial ==
    {"kpi_timeline", "crew_assignments", "task_completions", "final_kpis",
     "cost_breakdown", "crew_performance"}

\* the keys of the dictionary run_optimization returns
results_keys ==
    {"kpi_timeline", "crew_assignments", "task_completions", "final_kpis",
     "cost_breakdown", "crew_performance", "task_summary",
     "simulation_duration", "simulation_dt", "total_time_steps"}

\* the keys of the dictionary _calculate_cost_breakdown returns
cost_breakdown_keys ==
    {"labor_cost", "overtime_cost", "supply_cost", "emergency_cost",
     "restock_cost"}

\* the keys of the result, once run_optimization has returned
ReturnedKeys == IF pc = "done" THEN results_keys ELSE {}

OptNext == UpdateCrewStatus \/ DetectUrgent \/ HandleReassignment \/ BatchAssign

(***************************************************************************)
(* The simulator's configuration (ConfigManager).  The simulator measures  *)
(* time in 1/1000 s, flows and capacities in 1/1000 pax/s, queue lengths   *)
(* in 1/1000 pax, the coefficients of the choice model in 1/10 and costs   *)
(* in 1/1000.                                                              *)
(***************************************************************************)
dt == 20

T == SimSteps * dt

\* int(self.T / self.dt)
n_steps == T \div dt

\* np.arange(0, self.T, self.dt)
time_steps == [i \in 0..(n_steps - 1) |-> i * dt]

alpha_arr == 5

alpha_dep == 3

v_walk == 10

v_elevator == 10

v_stairs == 5

elevator_wait == 30

beta_walk == 10

beta_wait == 20

beta_vertical == 20

theta == 1

EntryIds == <<"E1", "E2">>

entry_points ==
    [e \in Range(EntryIds) |->
        IF e = "E1" THEN [floor |-> 1, x |-> 0, y |-> 0]
                    ELSE [floor |-> 2, x |-> 40, y |-> 0]]

gate_mappings == [G1 |-> "E1", G2 |-> "E2"]

FlightIds == <<"F1", "F2">>

\* the flight schedules a run is explored with
FlightSchedules ==
    {[f \in Range(FlightIds) |-> IF f = "F1" THEN f1 ELSE f2] :
        f1 \in [arrival_time : {0, 40}, passengers : {120, 240},
                aircraft_type : {"small"}, gate : {"G1"},
                flow_type : {"deplaning"}, boarding_start : {None},
                boarding_duration : {None}],
        f2 \in [arrival_time : {60, 100}, passengers : {40, 80},
                aircraft_type : {"medium"}, gate : {"G2", "G9"},
                flow_type : {"boarding"}, boarding_start : {None, 60},
                boarding_duration : {40}]}

Methods == {"logit", "deterministic", "proportional"}

\* self.restroom_sections: restroom_id-M, restroom_id-F for each restroom
Section(r, g) == [restroom |-> r, gender |-> g]

restroom_sections ==
    [i \in 1..(2 * Len(RestroomIds)) |->
        Section(RestroomIds[(i + 1) \div 2], IF i % 2 = 1 THEN "M" ELSE "F")]

Sections == Range(restroom_sections)

(***************************************************************************)
(* FlightManager.                                                          *)
(***************************************************************************)
get_deplaning_duration(aircraft_type) ==
    CASE aircraft_type = "small" -> 300
      [] aircraft_type = "medium" -> 600
      [] aircraft_type = "large" -> 900
      [] aircraft_type = "wide_body" -> 1200
      [] OTHER -> 600

\* one entry of flight_flows, as process_flight_schedule builds it
FlightFlow(flight) ==
    IF flight.flow_type = "deplaning"
    THEN LET deplaning_duration == get_deplaning_duration(flight.aircraft_type)
         IN  [rate |-> (flight.passengers * 1000) \div deplaning_duration,
              start |-> flight.arrival_time,
              end |-> flight.arrival_time + deplaning_duration,
              gate |-> flight.gate, type |-> flight.flow_type]
    ELSE LET departure_time == flight.arrival_time
             boarding_start_offset ==
                 IF flight.boarding_start = None THEN 60 * 60
                 ELSE flight.boarding_start
             boarding_duration ==
                 IF flight.boarding_duration = None THEN 45 * 60
                 ELSE flight.boarding_duration
             flow_start == Max2(0, departure_time - boarding_start_offset)
         IN  [rate |-> (flight.passengers * 1000) \div boarding_duration,
              start |-> flow_start,
              end |-> flow_start + boarding_duration,
              gate |-> flight.gate, type |-> flight.flow_type]

get_entry_point_for_gate(gate) ==
    IF gate \in DOMAIN gate_mappings THEN gate_mappings[gate] ELSE EntryIds[1]

RECURSIVE SumFlights(_, _, _, _)
SumFlights(fl, entry, tm, k) ==
    IF k > Len(FlightIds) THEN 0
    ELSE LET flow == FlightFlow(fl[FlightIds[k]])
             usage_rate == IF flow.type = "deplaning"
                           THEN (flow.rate * alpha_arr) \div 10
                           ELSE (flow.rate * alpha_dep) \div 10
         IN  (IF flow.start <= tm /\ tm <= flow.end
                 /\ get_entry_point_for_gate(flow.gate) = entry
              THEN usage_rate ELSE 0)
             + SumFlights(fl, entry, tm, k + 1)

compute_flight_inflows(fl, tm) ==
    [e \in Range(EntryIds) |-> SumFlights(fl, e, tm, 1)]

(***************************************************************************)
(* MovementModel.                                                          *)
(***************************************************************************)
\* np.sqrt, rounded down to a whole metre
ISqrt(n) == CHOOSE k \in 0..n : k * k <= n /\ (k + 1) * (k + 1) > n

DistanceInfo(entry_id, restroom_id) ==
    LET dx == restrooms[restroom_id].x - entry_points[entry_id].x
        dy == restrooms[restroom_id].y - entry_points[entry_id].y
        floor_diff == Abs(restrooms[restroom_id].floor
                          - entry_points[entry_id].floor)
        horizontal_dist == ISqrt(dx * dx + dy * dy)
        vertical_dist == IF floor_diff = 0 THEN 0 ELSE floor_diff * 4
    IN  [horizontal |-> horizontal_dist, vertical |-> vertical_dist,
         total |-> horizontal_dist + vertical_dist, floor_diff |-> floor_diff]

calculate_all_distances ==
    [entry_id \in Range(EntryIds) |->
        [restroom_id \in Restrooms |-> DistanceInfo(entry_id, restroom_id)]]

\* self.distances, computed once by the constructor
distances == calculate_all_distances

get_distance_info(entry_id, restroom_id) == distances[entry_id][restroom_id]

compute_travel_time(entry_id, restroom_id) ==
    LET dist_info == distances[entry_id][restroom_id]
        walk_time == (dist_info.horizontal * 10000) \div v_walk
        elevator_time == elevator_wait * 1000
                         + (dist_info.vertical * 10000) \div v_elevator
        stairs_time == (dist_info.vertical * 10000) \div v_stairs
        vertical_time == IF dist_info.floor_diff > 0
                         THEN Min2(elevator_time, stairs_time) ELSE 0
    IN  walk_time + vertical_time

(***************************************************************************)
(* QueueDynamics.                                                          *)
(***************************************************************************)
get_section_capacity(section_id) ==
    10 * (IF section_id.gender = "M"
          THEN restrooms[section_id.restroom].capacity_M
          ELSE restrooms[section_id.restroom].capacity_F)

\* lam and capacity are in 1/1000 pax/s; the capped rate is kept in 1/100000
\* pax/s (capacity * 0.95 is exact there), rho in 1/100000
compute_waiting_time(lam, capacity, current_queue) ==
    IF lam <= 0
    THEN IF capacity > 0 /\ current_queue > 0
         THEN (current_queue * 1000) \div capacity ELSE 0
    ELSE LET \* cap arrival rate to prevent instability
             capped == IF lam * 100 >= capacity * 99
                       THEN capacity * 95 ELSE lam * 100
             rho == (capped * 1000) \div capacity
         IN  IF current_queue > 0
             THEN LET queue_drain_time == (current_queue * 1000) \div capacity
                      steady_state_wait ==
                          IF rho < 99000
                          THEN (rho * 1000) \div (capacity * 100 - capped)
                          ELSE (current_queue * 1000) \div capacity
                  IN  queue_drain_time + steady_state_wait
             ELSE IF rho < 99000
                  THEN LET P_wait == (capped * 100000)
                                     \div (capacity * 100 + capped)
                       IN  Max2(0, (P_wait * 1000)
                                   \div (capacity * 100 - capped))
                  ELSE (rho * 100) \div capacity

\* the waiting times of the sections at a time step, from the arrival rates lam
\* and the queue lengths L stored for that step
get_current_waiting_times(lam, L, time_step) ==
    [section_id \in Sections |->
        compute_waiting_time(lam[section_id][time_step],
                             get_section_capacity(section_id),
                             L[section_id][time_step])]

\* a variant that takes the queue length of the following time step
update_waiting_times_next(w, lam, L, time_step) ==
    [section_id \in Sections |->
        [w[section_id] EXCEPT ![time_step] =
            compute_waiting_time(
                lam[section_id][time_step], get_section_capacity(section_id),
                L[section_id][IF time_step + 1 < n_steps THEN time_step + 1
                              ELSE time_step])]]

update_waiting_times(w, lam, L, time_step) ==
    [section_id \in Sections |->
        [w[section_id] EXCEPT ![time_step] =
            get_current_waiting_times(lam, L, time_step)[section_id]]]

\* a variant that serves at full capacity whatever the length of the queue
NewQueueFullService(section_id, current_queue, arrival_rate) ==
    LET capacity == get_section_capacity(section_id)
        served == IF current_queue <= 0 THEN 0 ELSE dt * capacity
    IN  current_queue + dt * arrival_rate - served

\* new_queue of update_queue_states before it is snapped to zero
NewQueue(section_id, current_queue, arrival_rate) ==
    LET capacity == get_section_capacity(section_id)
        \* dt * capacity * min(1.0, current_queue / 2.0)
        served == IF current_queue <= 0 THEN 0
                  ELSE (dt * capacity * Min2(2000, current_queue)) \div 2000
    IN  current_queue + dt * arrival_rate - served

\* a variant without the threshold
SnapNever(new_queue) == new_queue

\* "small threshold to prevent tiny negative values"
Snap(new_queue) == IF new_queue < 10 THEN 0 ELSE new_queue

\* a variant that overwrites the queue length of the step itself
update_queue_states_in_place(L, lam, time_step) ==
    IF time_step >= n_steps - 1 THEN L
    ELSE [section_id \in Sections |->
            [L[section_id] EXCEPT ![time_step] =
                Snap(NewQueue(section_id, L[section_id][time_step],
                              lam[section_id][time_step]))]]

update_queue_states(L, lam, time_step) ==
    IF time_step >= n_steps - 1 THEN L
    ELSE [section_id \in Sections |->
            [L[section_id] EXCEPT ![time_step + 1] =
                Snap(NewQueue(section_id, L[section_id][time_step],
                              lam[section_id][time_step]))]]

(***************************************************************************)
(* AssignmentMethods.  A cost map is a list of keys (the dict's order) and *)
(* a function from the keys to costs.                                      *)
(***************************************************************************)
compute_generalized_cost(entry_id, section_id, waiting_time) ==
    LET restroom_id == section_id.restroom
        travel_time == compute_travel_time(entry_id, restroom_id)
        dist_info == get_distance_info(entry_id, restroom_id)
        travel_cost == (beta_walk * travel_time) \div 10
        wait_cost == (beta_wait * waiting_time) \div 10
        vertical_penalty == (beta_vertical * dist_info.floor_diff * 10 * 1000)
                            \div 10
    IN  travel_cost + wait_cost + vertical_penalty

RECURSIVE SumOf(_, _, _)
SumOf(keys, f, k) ==
    IF k > Len(keys) THEN 0 ELSE f[keys[k]] + SumOf(keys, f, k + 1)

MinOf(keys, f) ==
    CHOOSE m \in {f[r] : r \in Range(keys)} : \A r \in Range(keys) : m <= f[r]

MaxOf(keys, f) ==
    CHOOSE m \in {f[r] : r \in Range(keys)} : \A r \in Range(keys) : m >= f[r]

\* 1000000 * exp(-k) for k = 0, 1, 2, ...
ExpNegWhole ==
    <<1000000, 367879, 135335, 49787, 18316, 6738, 2479, 912, 335, 123, 45,
      17, 6, 2, 1>>

\* 1000 * exp(-f / 1000) for 0 <= f < 1000, by the series of exp
ExpNegFraction(f) ==
    1000 - f + (f * f) \div 2000 - (f * f * f) \div 6000000
    + (((f * f) \div 1000) * ((f * f) \div 1000)) \div 24000

\* 1000000 * np.exp(-x / 1000) for x >= 0
ExpNeg(x) ==
    IF x \div 1000 >= Len(ExpNegWhole) THEN 0
    ELSE (ExpNegWhole[x \div 1000 + 1] * ExpNegFraction(x % 1000)) \div 1000

\* a variant whose sensitivity is never below 0.1
assign_flows_logit_of_floor(self_theta, total_flow, keys, costs) ==
    IF keys = <<>> \/ total_flow <= 0 THEN [r \in Range(keys) |-> 0]
    ELSE LET min_cost == MinOf(keys, costs)
             exp_utilities ==
                 [r \in Range(keys) |->
                     ExpNeg((Max2(self_theta, 1) * (costs[r] - min_cost)) \div 10)]
             sum_exp == SumOf(keys, exp_utilities, 1)
         IN  IF sum_exp = 0
             THEN [r \in Range(keys) |-> total_flow \div Len(keys)]
             ELSE [r \in Range(keys) |->
                      (total_flow * exp_utilities[r]) \div sum_exp]

\* assign_flows_logit of an AssignmentMethods object whose theta is self_theta
\* (in 1/10)
assign_flows_logit_of(self_theta, total_flow, keys, costs) ==
    IF keys = <<>> \/ total_flow <= 0 THEN [r \in Range(keys) |-> 0]
    ELSE LET \* utilities[r] - max_utility = -theta * (costs[r] - min cost)
             min_cost == MinOf(keys, costs)
             exp_utilities ==
                 [r \in Range(keys) |->
                     ExpNeg((self_theta * (costs[r] - min_cost)) \div 10)]
             sum_exp == SumOf(keys, exp_utilities, 1)
         IN  IF sum_exp = 0
             THEN [r \in Range(keys) |-> total_flow \div Len(keys)]
             ELSE [r \in Range(keys) |->
                      (total_flow * exp_utilities[r]) \div sum_exp]

\* a variant that does not divide by the sum of the exponentials
assign_flows_logit_unnormalised(total_flow, keys, costs) ==
    IF keys = <<>> \/ total_flow <= 0 THEN [r \in Range(keys) |-> 0]
    ELSE LET min_cost == MinOf(keys, costs)
         IN  [r \in Range(keys) |->
                 (total_flow * ExpNeg((theta * (costs[r] - min_cost)) \div 10))
                 \div 1000000]

\* with the theta of the configuration
assign_flows_logit(total_flow, keys, costs) ==
    assign_flows_logit_of(theta, total_flow, keys, costs)

\* a variant that takes the last key of minimal cost
assign_flows_deterministic_last(total_flow, keys, costs) ==
    IF keys = <<>> \/ total_flow <= 0 THEN [r \in Range(keys) |-> 0]
    ELSE LET k == CHOOSE i \in DOMAIN keys :
                     /\ \A j \in DOMAIN keys : costs[keys[i]] <= costs[keys[j]]
                     /\ \A j \in (i + 1)..Len(keys) :
                            costs[keys[j]] > costs[keys[i]]
         IN  [r \in Range(keys) |-> IF r = keys[k] THEN total_flow ELSE 0]

assign_flows_deterministic(total_flow, keys, costs) ==
    IF keys = <<>> \/ total_flow <= 0 THEN [r \in Range(keys) |-> 0]
    ELSE LET \* min(costs.keys(), key=...): the first key of minimal cost
             k == CHOOSE i \in DOMAIN keys :
                     /\ \A j \in DOMAIN keys : costs[keys[i]] <= costs[keys[j]]
                     /\ \A j \in 1..(i - 1) : costs[keys[j]] > costs[keys[i]]
             min_cost_restroom == keys[k]
         IN  [r \in Range(keys) |->
                 IF r = min_cost_restroom THEN total_flow ELSE 0]

\* a variant that does not return early on a total flow <= 0
assign_flows_proportional_unguarded(total_flow, keys, costs) ==
    IF keys = <<>> THEN [r \in Range(keys) |-> 0]
    ELSE LET max_cost == MaxOf(keys, costs)
             inverse_costs ==
                 [r \in Range(keys) |-> max_cost - costs[r] + 1000]
             total_inverse == SumOf(keys, inverse_costs, 1)
         IN  [r \in Range(keys) |->
                 (total_flow * inverse_costs[r]) \div total_inverse]

assign_flows_proportional(total_flow, keys, costs) ==
    IF keys = <<>> \/ total_flow <= 0 THEN [r \in Range(keys) |-> 0]
    ELSE LET max_cost == MaxOf(keys, costs)
             inverse_costs ==
                 [r \in Range(keys) |-> max_cost - costs[r] + 1000]
             total_inverse == SumOf(keys, inverse_costs, 1)
         IN  IF total_inverse = 0
             THEN [r \in Range(keys) |-> total_flow \div Len(keys)]
             ELSE [r \in Range(keys) |->
                      (total_flow * inverse_costs[r]) \div total_inverse]

assign_flows(total_flow, keys, costs, method) ==
    CASE method = "logit" -> assign_flows_logit(total_flow, keys, costs)
      [] method = "deterministic" ->
             assign_flows_deterministic(total_flow, keys, costs)
      [] method = "proportional" ->
             assign_flows_proportional(total_flow, keys, costs)

(***************************************************************************)
(* The simulator: _assign_flows_iteratively and run_simulation.            *)
(***************************************************************************)
max_iterations == 5

convergence_threshold == 1

gender_sections(gender) ==
    SelectSeq(restroom_sections, LAMBDA sec : sec.gender = gender)

\* what one entry point's inflow adds to new_flows[section_id]
EntryFlow(entry_id, total_inflow, section_id, waiting_times, method) ==
    LET flow == total_inflow \div 2
        keys == gender_sections(section_id.gender)
        costs == [sec \in Range(keys) |->
                     compute_generalized_cost(entry_id, sec,
                                              waiting_times[sec])]
    IN  IF total_inflow > 0 /\ flow > 0
        THEN assign_flows(flow, keys, costs, method)[section_id]
        ELSE 0

RECURSIVE SumEntries(_, _, _, _, _)
SumEntries(inflows, section_id, waiting_times, method, k) ==
    IF k > Len(EntryIds) THEN 0
    ELSE EntryFlow(EntryIds[k], inflows[EntryIds[k]], section_id,
                   waiting_times, method)
         + SumEntries(inflows, section_id, waiting_times, method, k + 1)

\* a variant that stores the change of the flow since the last iteration
SetArrivalRatesChange(lam, time_step, flows) ==
    [section_id \in Sections |->
        [lam[section_id] EXCEPT ![time_step] = flows[section_id] - @]]

SetArrivalRates(lam, time_step, flows) ==
    [section_id \in Sections |->
        [lam[section_id] EXCEPT ![time_step] = flows[section_id]]]

\* a variant that adds the flows of an iteration to those of the one before
NewFlowsCarriedOver(lam, L, inflows, time_step, method) ==
    LET waiting_times == get_current_waiting_times(lam, L, time_step)
    IN  [section_id \in Sections |->
            lam[section_id][time_step]
            + SumEntries(inflows, section_id, waiting_times, method, 1)]

\* new_flows of one iteration of _assign_flows_iteratively
NewFlows(lam, L, inflows, time_step, method) ==
    LET waiting_times == get_current_waiting_times(lam, L, time_step)
    IN  [section_id \in Sections |->
            SumEntries(inflows, section_id, waiting_times, method, 1)]

\* max(abs(new_flows[s] - prev_flows[s]) for s in self.restroom_sections)
MaxChange(new_flows, prev) ==
    MaxOf(restroom_sections,
          [section_id \in Sections |->
              Abs(new_flows[section_id] - prev[section_id])])

\* the arrays QueueDynamics.__init__ allocates
SimConstructed ==
    /\ t_idx = 0
    /\ entry_inflows = [e \in Range(EntryIds) |-> 0]
    /\ prev_flows = [section_id \in Sections |-> 0]
    /\ iteration = 0
    /\ lambda_r = [section_id \in Sections |-> [i \in 0..(n_steps - 1) |-> 0]]
    /\ L_r = [section_id \in Sections |-> [i \in 0..(n_steps - 1) |-> 0]]
    /\ w_r = [section_id \in Sections |-> [i \in 0..(n_steps - 1) |-> 0]]
    /\ raw_queue = [section_id \in Sections |-> 0]
    /\ last_change = 0

SimInit ==
    /\ flights \in FlightSchedules
    /\ assignment_method \in Methods
    /\ sim_pc = "assign"
    /\ SimConstructed

\* step 1 of the loop body and the head of _assign_flows_iteratively: the
\* inflows are computed and the arrival rates of the step are set to zero
StartAssignment ==
    /\ sim_pc = "assign"
    /\ t_idx < n_steps
    /\ entry_inflows' = compute_flight_inflows(flights, time_steps[t_idx])
    /\ lambda_r' = SetArrivalRates(lambda_r, t_idx,
                                   [section_id \in Sections |-> 0])
    /\ prev_flows' = [section_id \in Sections |-> 0]
    /\ iteration' = 0
    /\ sim_pc' = "iterate"
    /\ UNCHANGED <<flights, assignment_method, t_idx, L_r, w_r, raw_queue,
                   last_change>>
    /\ UNCHANGED <<optVars, fnVars>>

\* a variant of the loop that only ends when the flows have converged
LoopEndsWhenConverged(max_change, done) ==
    max_change < convergence_threshold

\* does the loop end after an iteration with this max_change, the done-th one?
\* It ends by the break, or because range(max_iterations) is exhausted.
LoopEnds(max_change, done) ==
    max_change < convergence_threshold \/ done >= max_iterations

\* one iteration of the loop of _assign_flows_iteratively
AssignmentIteration ==
    /\ sim_pc = "iterate"
    /\ \E new_flows \in {NewFlows(lambda_r, L_r, entry_inflows, t_idx,
                                  assignment_method)} :
          /\ lambda_r' = SetArrivalRates(lambda_r, t_idx, new_flows)
          /\ last_change' = MaxChange(new_flows, prev_flows)
          /\ iteration' = iteration + 1
          /\ prev_flows' = IF last_change' < convergence_threshold
                           THEN prev_flows ELSE new_flows
          /\ sim_pc' = IF LoopEnds(last_change', iteration + 1)
                       THEN "queue" ELSE "iterate"
    /\ UNCHANGED <<flights, assignment_method, t_idx, entry_inflows, L_r, w_r,
                   raw_queue>>
    /\ UNCHANGED <<optVars, fnVars>>

\* step 3: update_queue_states(t_idx, dt)
UpdateQueueStates ==
    /\ sim_pc = "queue"
    /\ L_r' = update_queue_states(L_r, lambda_r, t_idx)
    /\ raw_queue' = IF t_idx >= n_steps - 1 THEN raw_queue
                    ELSE [section_id \in Sections |->
                             NewQueue(section_id, L_r[section_id][t_idx],
                                      lambda_r[section_id][t_idx])]
    /\ sim_pc' = "wait"
    /\ UNCHANGED <<flights, assignment_method, t_idx, lambda_r, w_r,
                   entry_inflows, prev_flows, iteration, last_change>>
    /\ UNCHANGED <<optVars, fnVars>>

\* step 4: update_waiting_times(t_idx), and the loop goes on
UpdateWaitingTimes ==
    /\ sim_pc = "wait"
    /\ w_r' = update_waiting_times(w_r, lambda_r, L_r, t_idx)
    /\ t_idx' = t_idx + 1
    /\ sim_pc' = IF t_idx + 1 < n_steps THEN "assign" ELSE "done"
    /\ UNCHANGED <<flights, assignment_method, lambda_r, L_r, raw_queue,
                   entry_inflows, prev_flows, iteration, last_change>>
    /\ UNCHANGED <<optVars, fnVars>>

SimNext ==
    \/ StartAssignment
    \/ AssignmentIteration
    \/ UpdateQueueStates
    \/ UpdateWaitingTimes

(***************************************************************************)
(* The specifications: a run of the optimizer (Spec) and a run of the      *)
(* simulator (SpecSim), each with the other program as constructed.        *)
(***************************************************************************)
\* the cost maps the choice rules are called with: the keys in the order of
\* the dict, costs in 1/1000, and total flows in 1/1000 pax/s
KeyNames == <<"a", "b", "c", "d", "e">>

KeyOrders ==
    UNION {{SubSeq(KeyNames, 1, n),
            [i \in 1..n |-> KeyNames[n + 1 - i]]} : n \in 0..MaxKeys}

AssignFlowsCalls ==
    UNION {[f : {"assign_flows"}, method : Methods,
            total_flow : {-500, 0, 1, 250, 1000}, keys : {keys},
            costs : [Range(keys) -> {1000, 3000, 5000, 20000}]] :
           keys \in KeyOrders}

\* arrival rates and capacities in 1/1000 pax/s, queue lengths in 1/1000 pax
ComputeWaitingTimeCalls ==
    [f : {"compute_waiting_time"},
     lam : {0, 50, 100, 140, 145, 147, 148, 149, 150, 160, 190, 196, 197, 198,
            199, 200, 250},
     capacity : {150, 200},
     current_queue : {0, 5, 500, 2000}]

\* "R9" is no restroom of the configuration
Locations == Restrooms \cup {"Base_1", "Base_2", "Base_3", "R9"}

TravelTimeCalls ==
    [f : {"_calculate_travel_time"},
     from_location : Locations, to_location : Locations]

\* the usage data of one restroom at one step: total arrival rate in 1/1000
\* pax/s, total queue length in 1/10 pax, maximum waiting time in s, and the
\* random draw
SeverityCalls ==
    [f : {"Severity"},
     cond : [lam : {0, 30, 80, 90}, L : {0, 8, 10, 15, 20},
             w : {0, 30, 60, 61, 90, 120, 121, 150}, rnd : BOOLEAN]]

\* np.max(self.lambda_r[section_id])
PeakArrival(rates) == MaxOf([i \in 1..Len(rates) |-> i], rates)

\* a variant that calls a section unstable from 100 percent of its capacity
check_system_stability_from_capacity(lam) ==
    LET peak_arrival(sec) == PeakArrival(lam[sec])
        capacity(sec) == get_section_capacity(sec)
    IN  [unstable_sections |->
             SelectSeq(restroom_sections,
                       LAMBDA sec : peak_arrival(sec) >= capacity(sec)),
         high_utilization_sections |->
             SelectSeq(restroom_sections,
                       LAMBDA sec : /\ ~(peak_arrival(sec) >= capacity(sec))
                                    /\ peak_arrival(sec) * 100 > 90 * capacity(sec)),
         stable_sections |->
             SelectSeq(restroom_sections,
                       LAMBDA sec : /\ ~(peak_arrival(sec) >= capacity(sec))
                                    /\ ~(peak_arrival(sec) * 100 > 90 * capacity(sec)))]

\* QueueDynamics.check_system_stability over the arrival rates lam (a sequence
\* per section, in 1/1000 pax/s); the lists hold the section ids
check_system_stability(lam) ==
    LET peak_arrival(sec) == PeakArrival(lam[sec])
        capacity(sec) == get_section_capacity(sec)
        \* peak_arrival >= capacity * 0.99
        IsUnstable(sec) == peak_arrival(sec) * 100 >= capacity(sec) * 99
        \* utilization > 90, with utilization = peak_arrival / capacity * 100
        IsHigh(sec) == peak_arrival(sec) * 100 > 90 * capacity(sec)
    IN  [unstable_sections |->
             SelectSeq(restroom_sections, IsUnstable),
         high_utilization_sections |->
             SelectSeq(restroom_sections,
                       LAMBDA sec : ~IsUnstable(sec) /\ IsHigh(sec)),
         stable_sections |->
             SelectSeq(restroom_sections,
                       LAMBDA sec : ~IsUnstable(sec) /\ ~IsHigh(sec))]

\* arrival rates around 90 and 99 percent of the capacities 0.2 (R1) and 0.15
\* (R2); at exactly 90 percent the rounding of the floating-point division
\* decides, so that rate is left out
StabilityCalls ==
    [f : {"check_system_stability"},
     lam : {[sec \in Sections |->
                IF sec = Section("R1", "M") THEN <<a, b>>
                ELSE IF sec = Section("R1", "F") THEN <<c>>
                ELSE IF sec = Section("R2", "M") THEN <<d>>
                ELSE <<0, 149, 0>>] :
            a \in {0, 179, 181, 197, 198, 250},
            b \in {0, 179, 181, 197, 198, 250},
            c \in {0, 181},
            d \in {0, 134, 136, 148, 149}}]

(***************************************************************************)
(* ConfigManager.  A configuration is described by the required keys it    *)
(* holds: keys at the top level (other: does it hold any further key?),    *)
(* and the fields of its one flight, one restroom and one entry point.     *)
(***************************************************************************)
required_keys ==
    <<"floors", "flights", "restrooms", "entry_points", "movement_speeds",
      "choice_params", "simulation">>

required_flight_keys ==
    <<"arrival_time", "passengers", "aircraft_type", "gate", "flow_type">>

required_restroom_keys == <<"floor", "x", "y", "capacity_M", "capacity_F">>

required_entry_keys == <<"floor", "x", "y">>

\* the required keys that are not present, in the order they are looked for
MissingKeys(required, present) == SelectSeq(required, LAMBDA k : k \notin present)

NoError == [error |-> "none", key |-> "none"]

\* a variant that does not look at the fields of the restrooms
validate_config_skipping_restrooms(config) ==
    IF MissingKeys(required_keys, config.keys) # <<>>
    THEN [error |-> "Missing required configuration key",
          key |-> Head(MissingKeys(required_keys, config.keys))]
    ELSE IF MissingKeys(required_flight_keys, config.flight) # <<>>
    THEN [error |-> "Flight missing required key",
          key |-> Head(MissingKeys(required_flight_keys, config.flight))]
    ELSE IF MissingKeys(required_entry_keys, config.entry) # <<>>
    THEN [error |-> "Entry point missing required key",
          key |-> Head(MissingKeys(required_entry_keys, config.entry))]
    ELSE NoError

\* the ValueError validate_config raises, NoError if it raises none
validate_config(config) ==
    IF MissingKeys(required_keys, config.keys) # <<>>
    THEN [error |-> "Missing required configuration key",
          key |-> Head(MissingKeys(required_keys, config.keys))]
    ELSE IF MissingKeys(required_flight_keys, config.flight) # <<>>
    THEN [error |-> "Flight missing required key",
          key |-> Head(MissingKeys(required_flight_keys, config.flight))]
    ELSE IF MissingKeys(required_restroom_keys, config.restroom) # <<>>
    THEN [error |-> "Restroom missing required key",
          key |-> Head(MissingKeys(required_restroom_keys, config.restroom))]
    ELSE IF MissingKeys(required_entry_keys, config.entry) # <<>>
    THEN [error |-> "Entry point missing required key",
          key |-> Head(MissingKeys(required_entry_keys, config.entry))]
    ELSE NoError

\* ConfigManager(config_dict = config): an empty dictionary is falsy
ConfigManager(config) ==
    IF config.keys = {} /\ ~config.other
    THEN [error |-> "Either config_path or config_dict must be provided",
          key |-> "none"]
    ELSE validate_config(config)

\* MultiFloorAirportRestroomSimulator(config_dict = config): the error the
\* construction ends with, and whether it went on past the ConfigManager to
\* the components and the queue state
SimulatorInit(config) ==
    LET raised == ConfigManager(config)
    IN  [error |-> raised.error, key |-> raised.key,
         components |-> raised = NoError]

\* the sets that lack at most one element of the sequence
AllButOne(required) ==
    {Range(required)} \cup {Range(required) \ {k} : k \in Range(required)}

\* configurations lacking any top-level keys, and configurations with all of
\* them whose flight, restroom and entry point lack at most one field each
ConfigCalls ==
    [f : {"MultiFloorAirportRestroomSimulator"},
     config : [keys : SUBSET Range(required_keys), other : BOOLEAN,
               flight : {Range(required_flight_keys)},
               restroom : {Range(required_restroom_keys)},
               entry : {Range(required_entry_keys)}]
              \cup
              [keys : {Range(required_keys)}, other : {FALSE},
               flight : AllButOne(required_flight_keys),
               restroom : AllButOne(required_restroom_keys),
               entry : AllButOne(required_entry_keys)]]

\* calls of assign_flows_logit with a sensitivity theta of 0, 0.1 and 0.5
LogitCalls ==
    UNION {[f : {"assign_flows_logit"}, theta : {0, 1, 5},
            total_flow : {0, 250, 1000}, keys : {keys},
            costs : [Range(keys) -> {1000, 3000, 20000}]] :
           keys \in KeyOrders}

FnIdle == fn_pc = "idle" /\ fn_in = [f |-> "none"] /\ fn_out = None

FnInit ==
    /\ fn_pc = "call"
    /\ fn_in \in AssignFlowsCalls \cup ComputeWaitingTimeCalls
                 \cup TravelTimeCalls \cup SeverityCalls \cup ConfigCalls
                 \cup StabilityCalls \cup LogitCalls
    /\ fn_out = None

CallAssignFlows ==
    /\ fn_pc = "call"
    /\ fn_in.f = "assign_flows"
    /\ fn_out' = assign_flows(fn_in.total_flow, fn_in.keys, fn_in.costs,
                              fn_in.method)
    /\ fn_pc' = "return"
    /\ UNCHANGED <<fn_in, optVars, simVars>>

CallComputeWaitingTime ==
    /\ fn_pc = "call"
    /\ fn_in.f = "compute_waiting_time"
    /\ fn_out' = compute_waiting_time(fn_in.lam, fn_in.capacity,
                                      fn_in.current_queue)
    /\ fn_pc' = "return"
    /\ UNCHANGED <<fn_in, optVars, simVars>>

CallTravelTime ==
    /\ fn_pc = "call"
    /\ fn_in.f = "_calculate_travel_time"
    /\ fn_out' = _calculate_travel_time(fn_in.from_location,
                                        fn_in.to_location)
    /\ fn_pc' = "return"
    /\ UNCHANGED <<fn_in, optVars, simVars>>

CallSeverity ==
    /\ fn_pc = "call"
    /\ fn_in.f = "Severity"
    /\ fn_out' = Severity(fn_in.cond)
    /\ fn_pc' = "return"
    /\ UNCHANGED <<fn_in, optVars, simVars>>

CallSimulatorInit ==
    /\ fn_pc = "call"
    /\ fn_in.f = "MultiFloorAirportRestroomSimulator"
    /\ fn_out' = SimulatorInit(fn_in.config)
    /\ fn_pc' = "return"
    /\ UNCHANGED <<fn_in, optVars, simVars>>

CallCheckSystemStability ==
    /\ fn_pc = "call"
    /\ fn_in.f = "check_system_stability"
    /\ fn_out' = check_system_stability(fn_in.lam)
    /\ fn_pc' = "return"
    /\ UNCHANGED <<fn_in, optVars, simVars>>

CallAssignFlowsLogit ==
    /\ fn_pc = "call"
    /\ fn_in.f = "assign_flows_logit"
    /\ fn_out' = assign_flows_logit_of(fn_in.theta, fn_in.total_flow,
                                       fn_in.keys, fn_in.costs)
    /\ fn_pc' = "return"
    /\ UNCHANGED <<fn_in, optVars, simVars>>

FnNext ==
    \/ CallAssignFlows
    \/ CallComputeWaitingTime
    \/ CallTravelTime
    \/ CallSeverity
    \/ CallSimulatorInit
    \/ CallCheckSystemStability
    \/ CallAssignFlowsLogit

vars == <<optVars, simVars, fnVars>>

\* the simulator before run_simulation is called
SimIdle ==
    /\ flights = CHOOSE fl \in FlightSchedules : TRUE
    /\ assignment_method = "logit"
    /\ sim_pc = "idle"
    /\ SimConstructed

Init == OptInit /\ SimIdle /\ FnIdle

Next == OptNext

Spec == Init /\ [][Next]_vars

InitSim == SimInit /\ OptInit /\ FnIdle

NextSim == SimNext

SpecSim == InitSim /\ [][NextSim]_vars

InitFn == FnInit /\ OptInit /\ SimIdle

NextFn == FnNext

SpecFn == InitFn /\ [][NextFn]_vars

(***************************************************************************)
(* Preemption.                                                             *)
(***************************************************************************)
\* the calls of _preempt_crew_task that found a task to interrupt
Interruptions == {i \in DOMAIN preemptions : preemptions[i].task # 0}

\* C1 as stated: after a preemption the interrupted task A has no assigned
\* crew, its required_time is the previous required_time plus 1800 s, and the
\* urgent task B lists exactly the preempting crew member.
C1_PushedForwardFromPrevious ==
    \A i \in Interruptions :
        LET p == preemptions[i]
        IN  /\ p.assigned_crew = <<>>
            /\ p.required_time = p.previous_required_time + 1800
            /\ p.urgent_crew = <<p.crew>>

\* C1 amended: after a preemption the crew member is no longer listed on the
\* interrupted task A; if A is left without crew its required_time is the time
\* of the preemption plus 1800 s, otherwise A keeps its remaining crew and its
\* required_time; the urgent task B lists exactly the preempting crew member.
C1_PreemptionInvariant ==
    \A i \in Interruptions :
        LET p == preemptions[i]
        IN  /\ p.assigned_crew = RemoveFirst(p.previous_crew, p.crew)
            /\ ~InSeq(p.crew, p.assigned_crew)
            /\ p.assigned_crew = <<>> => p.required_time = p.time + 1800
            /\ p.assigned_crew # <<>> => p.required_time = p.previous_required_time
            /\ p.urgent_crew = <<p.crew>>

\* a crew member was taken off a task it staffed alone, and another off a team
C1_Witness ==
    /\ pc = "batch"
    /\ \E i \in Interruptions :
          /\ preemptions[i].assigned_crew = <<>>
          /\ preemptions[i].previous_required_time # preemptions[i].time

C1_WitnessTeam ==
    /\ pc = "batch"
    /\ \E i \in Interruptions : preemptions[i].assigned_crew # <<>>

(***************************************************************************)
(* Detection of urgent tasks.                                              *)
(***************************************************************************)
IsUrgent(task) == task.priority >= 3

IsOpen(task) == task.completion_time = None

UrgentTasksOf(tasks, r) ==
    {i \in DOMAIN tasks : tasks[i].restroom_id = r /\ IsUrgent(tasks[i])}

\* the tasks a step appends to the task list
NewTasks == (DOMAIN cleaning_tasks') \ (DOMAIN cleaning_tasks)

\* a step creates no urgent task next to a recent open one of the facility
C2_NoNewUrgentWhileRecentOpen ==
    \A n \in NewTasks :
        IsUrgent(cleaning_tasks'[n]) =>
            ~ \E i \in UrgentTasksOf(cleaning_tasks, cleaning_tasks'[n].restroom_id) :
                  /\ IsOpen(cleaning_tasks[i])
                  /\ cleaning_tasks'[n].created_time - cleaning_tasks[i].created_time < 1800

C2_OpenUrgentApart ==
    \A r \in Restrooms : \A i, j \in UrgentTasksOf(cleaning_tasks, r) :
        (i # j /\ IsOpen(cleaning_tasks[i]) /\ IsOpen(cleaning_tasks[j]))
            => Abs(cleaning_tasks[i].created_time - cleaning_tasks[j].created_time) >= 1800

\* C2: detection creates no urgent task for a facility that has an open urgent
\* task created less than 1800 s before, so two open urgent tasks of one
\* facility never have creation times less than 1800 s apart.
C2_DuplicateSuppression ==
    []C2_OpenUrgentApart /\ [][C2_NoNewUrgentWhileRecentOpen]_vars

\* detection saw a trigger at a facility with a recent open urgent task and
\* created nothing for it
C2_Witness ==
    /\ pc = "batch"
    /\ \E r \in Restrooms :
          /\ Severity(demand[r]) > 0
          /\ \E i \in UrgentTasksOf(cleaning_tasks, r) :
                /\ IsOpen(cleaning_tasks[i])
                /\ cleaning_tasks[i].created_time < current_time
                /\ current_time - cleaning_tasks[i].created_time < 1800
          /\ \A i \in UrgentTasksOf(cleaning_tasks, r) :
                cleaning_tasks[i].created_time # current_time

\* the reading of a waiting time of 90 s and nothing else; fired tells whether
\* the random critical failure fired with it
Spike(fired) == [lam |-> 0, L |-> 0, w |-> 90, rnd |-> fired]

RandomFailure == [lam |-> 0, L |-> 0, w |-> 0, rnd |-> TRUE]

\* the usage data so far hold one spike, at facility r at time ts, and no other
\* trigger condition; the random failure may have fired at any step
SingleSpike(r, ts) ==
    /\ \E i \in DOMAIN readings :
          /\ readings[i].restroom = r
          /\ readings[i].time = ts
          /\ readings[i].cond \in {Spike(TRUE), Spike(FALSE)}
          /\ \A j \in DOMAIN readings : j # i => readings[j].cond = RandomFailure
    /\ pc \in {"reassign", "batch", "update", "done"}

\* the same, and the random failure never fired
SingleSpikeOnly(r, ts) ==
    /\ readings = << [time |-> ts, restroom |-> r, cond |-> Spike(FALSE)] >>
    /\ pc \in {"reassign", "batch", "update", "done"}

SpikeTimes == {k * Dt : k \in 0..NSteps}

\* exactly one urgent task of facility r, created at ts
OneUrgentTask(r, ts) ==
    /\ Cardinality(UrgentTasksOf(cleaning_tasks, r)) = 1
    /\ \A i \in UrgentTasksOf(cleaning_tasks, r) :
          /\ cleaning_tasks[i].created_time = ts
          /\ cleaning_tasks[i].cleaning_type \in {"call_in", "emergency"}

IsUnstaffedUrgent(task) ==
    IsUrgent(task) /\ IsOpen(task) /\ task.assigned_crew = <<>>

\* a step leaves an urgent task without crew in the list: unchanged, staffed, or
\* staffed and interrupted for a more urgent task, which only defers it
C4_StaysInTaskList ==
    \A i \in DOMAIN cleaning_tasks :
        IsUnstaffedUrgent(cleaning_tasks[i]) =>
            /\ i \in DOMAIN cleaning_tasks'
            /\ cleaning_tasks'[i].task_id = cleaning_tasks[i].task_id
            /\ IsOpen(cleaning_tasks'[i])
            /\ cleaning_tasks'[i].assigned_crew = <<>> =>
                  \/ cleaning_tasks'[i] = cleaning_tasks[i]
                  \* staffed in this step and preempted again in the same step
                  \/ /\ \E k \in (DOMAIN preemptions') \ (DOMAIN preemptions) :
                            preemptions'[k].task = i
                     /\ cleaning_tasks'[i] =
                            [cleaning_tasks[i] EXCEPT !.required_time = current_time + 1800]

C4_ConsideredEachStep ==
    pc = "batch" =>
        \A i \in DOMAIN cleaning_tasks :
            IsUnstaffedUrgent(cleaning_tasks[i])
                => InSeq(i, PendingTasks(cleaning_tasks, current_time))

\* C4: an urgent task without crew is not dropped: it stays in the task list,
\* open, until crew is assigned to it (crew given to it and taken away again
\* within one step only defers its required_time), and the batch assignment of
\* every step has it among the pending tasks it goes through.
C4_UnstaffedUrgentRetried ==
    []C4_ConsideredEachStep /\ [][C4_StaysInTaskList]_vars

\* an urgent task created at an earlier step is still without crew and is
\* pending in the batch assignment of this step
C4_Witness ==
    /\ pc = "batch"
    /\ \E i \in DOMAIN cleaning_tasks :
          /\ IsUnstaffedUrgent(cleaning_tasks[i])
          /\ cleaning_tasks[i].created_time < current_time
          /\ InSeq(i, PendingTasks(cleaning_tasks, current_time))

(***************************************************************************)
(* Supplies.                                                               *)
(***************************************************************************)
OnRestockTrip(c) ==
    job[c] = -1 /\ crew[c].current_task_end_time > current_time

\* between updates every member holds supplies for one cleaning
C5_NeverBelowOneCleaning ==
    \A c \in Crew : crew[c].supplies_remaining >= supplies_per_cleaning

C5_RestockStep ==
    \A c \in Crew :
        /\ (job[c] # -1 /\ job'[c] = -1) =>
              /\ crew'[c].supplies_remaining = 1000
              /\ crew'[c].status = "traveling"
              /\ crew'[c].current_task_end_time
                    = current_time + _calculate_restock_time(crew[c])
              /\ _consume_supplies(crew[c], cleaning_tasks[job[c]]) < supplies_per_cleaning
        /\ (job[c] > 0 /\ job'[c] = 0) =>
              crew'[c].supplies_remaining
                  \in {crew[c].supplies_remaining,
                       _consume_supplies(crew[c], cleaning_tasks[job[c]])}
        /\ OnRestockTrip(c) => (job'[c] = -1 /\ crew'[c] = crew[c])

\* C5: a crew member whose supplies fall below supplies_per_cleaning is sent to
\* restock in the same update, so outside the update no member holds less; a
\* restock sets the supplies to 100 percent and keeps the member busy, and a
\* member on a restock trip is given nothing else before the trip has ended.
C5_SupplyDepletion ==
    []C5_NeverBelowOneCleaning /\ [][C5_RestockStep]_vars

\* a crew member has just been sent to restock
C5_Witness ==
    /\ pc = "detect"
    /\ \E c \in Crew :
          /\ OnRestockTrip(c)
          /\ crew[c].supplies_remaining = 1000
          /\ crew[c].current_task_end_time
                = current_time + _calculate_restock_time(crew[c])

(***************************************************************************)
(* Completion.                                                             *)
(***************************************************************************)
\* the tasks a step marks completed
Completing ==
    {i \in DOMAIN cleaning_tasks :
        IsOpen(cleaning_tasks[i]) /\ ~IsOpen(cleaning_tasks'[i])}

\* every crew member of the task was working on it and has reached its end time
AllFinishedWorkOn(i) ==
    \A k \in DOMAIN cleaning_tasks[i].assigned_crew :
        LET c == cleaning_tasks[i].assigned_crew[k]
        IN  /\ job[c] = i
            /\ crew[c].current_task_end_time > 0
            /\ crew[c].current_task_end_time <= current_time

\* C6: a task is marked completed only in an update at which every member of
\* its assigned crew has finished, it is then appended to completed_tasks, and
\* after the update its facility's active-cleaning list holds no entry of it.
C6_CompletionRule ==
    [][\A i \in Completing :
          /\ pc = "update"
          /\ AllFinishedWorkOn(i)
          /\ cleaning_tasks'[i].completion_time = current_time
          /\ InSeq(i, completed_tasks') /\ ~InSeq(i, completed_tasks)
          /\ ~InSeq(cleaning_tasks[i].task_id,
                    active_cleanings'[cleaning_tasks[i].restroom_id])]_vars

\* the part of C6 that does not depend on the active-cleaning list
C6_OnlyWhenAllFinished ==
    [][\A i \in Completing :
          /\ pc = "update"
          /\ AllFinishedWorkOn(i)
          /\ cleaning_tasks'[i].completion_time = current_time
          /\ InSeq(i, completed_tasks') /\ ~InSeq(i, completed_tasks)
          /\ Count(active_cleanings'[cleaning_tasks[i].restroom_id],
                   cleaning_tasks[i].task_id)
               = Count(active_cleanings[cleaning_tasks[i].restroom_id],
                       cleaning_tasks[i].task_id) - 1]_vars

(***************************************************************************)
(* Capacity of a facility.                                                 *)
(***************************************************************************)
\* the crew members at work at facility r
Cleaners(r) ==
    {c \in Crew : /\ job[c] > 0
                  /\ cleaning_tasks[job[c]].restroom_id = r
                  /\ crew[c].current_task_end_time > current_time}

MaxCleanersByCapacity(r) ==
    LET total == restrooms[r].capacity_M + restrooms[r].capacity_F
    IN  IF total > 50 THEN 3 ELSE IF total > 35 THEN 2 ELSE 1

IsAssigned(task) == IsOpen(task) /\ task.assigned_crew # <<>>

IsUnassigned(task) == IsOpen(task) /\ task.assigned_crew = <<>>

\* what a step may do to a task
C8_TaskStep ==
    /\ \A i \in NewTasks : IsUnassigned(cleaning_tasks'[i])
    /\ \A i \in DOMAIN cleaning_tasks :
          LET a == cleaning_tasks[i]
              b == cleaning_tasks'[i]
          IN  /\ i \in DOMAIN cleaning_tasks'
              /\ ~IsOpen(a) => b = a
              /\ (IsOpen(a) /\ ~IsOpen(b)) =>
                    /\ IsAssigned(a)
                    /\ b.assigned_crew = a.assigned_crew
                    /\ ~InSeq(i, completed_tasks)
              /\ (IsAssigned(a) /\ IsUnassigned(b)) =>
                    \E k \in DOMAIN preemptions' :
                        /\ preemptions'[k].task = i
                        /\ preemptions'[k].assigned_crew = <<>>

C8_CompletedOnce ==
    /\ \A i \in DOMAIN cleaning_tasks :
          ~IsOpen(cleaning_tasks[i]) <=> Count(completed_tasks, i) = 1
    /\ \A k \in DOMAIN completed_tasks :
          /\ completed_tasks[k] \in DOMAIN cleaning_tasks
          /\ Count(completed_tasks, completed_tasks[k]) = 1
          /\ cleaning_tasks[completed_tasks[k]].assigned_crew # <<>>

\* C8: a task is created unassigned; it is completed only from assigned, with
\* its crew, once; it goes back from assigned to unassigned only by a
\* preemption; and a completed task never changes again.
C8_TaskLifecycle == []C8_CompletedOnce /\ [][C8_TaskStep]_vars

\* one task has been completed and another has just lost its crew to a
\* preemption
C8_Witness ==
    /\ pc = "batch"
    /\ completed_tasks # <<>>
    /\ \E k \in DOMAIN preemptions :
          /\ preemptions[k].task # 0
          /\ preemptions[k].assigned_crew = <<>>
          /\ IsUnassigned(cleaning_tasks[preemptions[k].task])

(***************************************************************************)
(* Queue lengths.                                                          *)
(***************************************************************************)
\* C9: after any number of simulator time steps, for every restroom section
\* and every time index the stored queue length is >= 0, and the queue length
\* stored for index 0 is 0.
C9_QueueNonNegative ==
    \A section_id \in Sections :
        /\ \A i \in 0..(n_steps - 1) : L_r[section_id][i] >= 0
        /\ L_r[section_id][0] = 0

\* a queue update has just brought a section's queue below zero, and zero is
\* what was stored for it
C9_Witness ==
    /\ sim_pc = "wait"
    /\ t_idx < n_steps - 1
    /\ \E section_id \in Sections :
          /\ L_r[section_id][t_idx] > 0
          /\ raw_queue[section_id] < 0
          /\ L_r[section_id][t_idx + 1] = 0

(***************************************************************************)
(* The order of a simulator time step.                                     *)
(***************************************************************************)
\* the steps the loop has completed
Completed == 0..(t_idx - 1)

\* the phases of a step follow one another in the order of the loop body, and
\* each array is written in its own phase only
PhaseOrder ==
    /\ sim_pc = "assign" => sim_pc' = "iterate"
    /\ sim_pc = "iterate" => sim_pc' \in {"iterate", "queue"}
    /\ sim_pc = "queue" => sim_pc' = "wait"
    /\ sim_pc = "wait" => (sim_pc' \in {"assign", "done"} /\ t_idx' = t_idx + 1)
    /\ lambda_r' # lambda_r => sim_pc \in {"assign", "iterate"}
    /\ L_r' # L_r => sim_pc = "queue"
    /\ w_r' # w_r => sim_pc = "wait"

\* the queue update of a completed step used the arrival rates that the flow
\* assignment of that step left
QueueFromAssignedFlows ==
    \A i \in Completed : \A section_id \in Sections :
        i + 1 < n_steps =>
            L_r[section_id][i + 1] =
                Snap(NewQueue(section_id, L_r[section_id][i],
                              lambda_r[section_id][i]))

\* the waiting time stored for a completed step is the one of the queue length
\* that the step's queue update wrote
WaitingFromUpdatedQueue ==
    \A i \in Completed : \A section_id \in Sections :
        i + 1 < n_steps =>
            w_r[section_id][i] =
                compute_waiting_time(lambda_r[section_id][i],
                                     get_section_capacity(section_id),
                                     L_r[section_id][i + 1])

\* the waiting time stored for a completed step is the one of the queue length
\* the step began with
WaitingFromPreviousQueue ==
    \A i \in Completed : \A section_id \in Sections :
        w_r[section_id][i] =
            compute_waiting_time(lambda_r[section_id][i],
                                 get_section_capacity(section_id),
                                 L_r[section_id][i])

C11_IterationStep ==
    (sim_pc = "iterate" /\ sim_pc' \in {"iterate", "queue"}) =>
        /\ iteration' = iteration + 1
        /\ sim_pc' = "iterate" =>
              (iteration' < max_iterations
               /\ last_change' >= convergence_threshold)

\* the loop is left after at most max_iterations iterations, converged or not
C11_AtMostFive ==
    /\ iteration <= 5
    /\ sim_pc = "iterate" => iteration < 5
    /\ sim_pc \in {"queue", "wait"} =>
          /\ iteration >= 1
          /\ last_change < convergence_threshold \/ iteration = 5

\* C11: at every time step and for every assignment policy the fixed-point
\* loop of the flow assignment is left after at most 5 iterations, also when
\* the iterations keep changing the flows by more than the threshold.
C11_ConvergenceBound == []C11_AtMostFive /\ [][C11_IterationStep]_vars

\* the loop was left after its fifth iteration, which still changed the flows
\* by more than the threshold
C11_Witness ==
    /\ sim_pc = "queue"
    /\ iteration = 5
    /\ last_change >= convergence_threshold

(***************************************************************************)
(* The choice rules.                                                       *)
(***************************************************************************)
Returned(f) == fn_pc = "return" /\ fn_in.f = f

\* C12: assign_flows_logit and assign_flows_proportional, called with a
\* non-empty cost map and total_flow > 0, return flows that sum to total_flow
\* (each flow is rounded down to 1/1000 pax/s here, so the sum is short of
\* total_flow by less than 1/1000 pax/s per facility).
C12_FlowConservation ==
    (/\ Returned("assign_flows")
     /\ fn_in.method \in {"logit", "proportional"}
     /\ fn_in.keys # <<>> /\ fn_in.total_flow > 0) =>
        /\ SumOf(fn_in.keys, fn_out, 1) <= fn_in.total_flow
        /\ SumOf(fn_in.keys, fn_out, 1) > fn_in.total_flow - Len(fn_in.keys)

\* a rule has split a flow among three facilities of different costs
C12_Witness ==
    /\ Returned("assign_flows")
    /\ fn_in.method \in {"logit", "proportional"}
    /\ Len(fn_in.keys) = 3 /\ fn_in.total_flow = 1000
    /\ \A i, j \in DOMAIN fn_in.keys :
          i # j => fn_in.costs[fn_in.keys[i]] # fn_in.costs[fn_in.keys[j]]
    /\ \E r \in Range(fn_in.keys) : fn_out[r] \notin {0, fn_in.total_flow}

\* C13: assign_flows_deterministic, called with a non-empty cost map and
\* total_flow > 0, gives the whole flow to one facility of minimal cost, the
\* first of them in the key order of the cost map, and 0 to every other one.
C13_DeterministicPolicy ==
    (/\ Returned("assign_flows")
     /\ fn_in.method = "deterministic"
     /\ fn_in.keys # <<>> /\ fn_in.total_flow > 0) =>
        \E k \in DOMAIN fn_in.keys :
            /\ \A j \in DOMAIN fn_in.keys :
                  fn_in.costs[fn_in.keys[k]] <= fn_in.costs[fn_in.keys[j]]
            /\ \A j \in 1..(k - 1) :
                  fn_in.costs[fn_in.keys[j]] > fn_in.costs[fn_in.keys[k]]
            /\ DOMAIN fn_out = Range(fn_in.keys)
            /\ \A r \in Range(fn_in.keys) :
                  fn_out[r] = IF r = fn_in.keys[k] THEN fn_in.total_flow ELSE 0

\* two facilities tied for the minimal cost and the one that comes first in
\* the key order got the flow
C13_Witness ==
    /\ Returned("assign_flows")
    /\ fn_in.method = "deterministic"
    /\ fn_in.keys = <<"c", "b", "a">> /\ fn_in.total_flow = 1000
    /\ fn_in.costs = [a |-> 1000, b |-> 5000, c |-> 1000]
    /\ fn_out = [a |-> 0, b |-> 0, c |-> 1000]

\* C14: each of the three choice rules, called with an empty cost map or with a
\* total flow <= 0, returns a flow of zero for every candidate of the cost map.
C14_EdgeCases ==
    (/\ Returned("assign_flows")
     /\ fn_in.keys = <<>> \/ fn_in.total_flow <= 0) =>
        /\ DOMAIN fn_out = Range(fn_in.keys)
        /\ \A r \in Range(fn_in.keys) : fn_out[r] = 0

\* a rule was called with a negative total flow and three candidates
C14_Witness ==
    /\ Returned("assign_flows")
    /\ fn_in.total_flow < 0
    /\ Len(fn_in.keys) = 3
    /\ \A r \in Range(fn_in.keys) : fn_out[r] = 0

(***************************************************************************)
(* The waiting-time estimate.                                              *)
(***************************************************************************)
\* C15: for a fixed capacity, compute_waiting_time does not decrease when the
\* arrival rate grows (the queue length fixed) nor when the queue length grows
\* (the arrival rate fixed), arrival rates at and above 99% of the capacity
\* included.
C15_WaitingTimeMonotone ==
    Returned("compute_waiting_time") =>
        \A c \in ComputeWaitingTimeCalls :
            (/\ c.capacity = fn_in.capacity
             /\ \/ c.lam >= fn_in.lam /\ c.current_queue = fn_in.current_queue
                \/ c.lam = fn_in.lam /\ c.current_queue >= fn_in.current_queue)
                => fn_out <= compute_waiting_time(c.lam, c.capacity,
                                                  c.current_queue)

\* the part of C15 about the queue length
C15_MonotoneInQueue ==
    Returned("compute_waiting_time") =>
        \A c \in ComputeWaitingTimeCalls :
            (/\ c.capacity = fn_in.capacity /\ c.lam = fn_in.lam
             /\ c.current_queue >= fn_in.current_queue)
                => fn_out <= compute_waiting_time(c.lam, c.capacity,
                                                  c.current_queue)

\* the part of C15 about the arrival rate, below 99% of the capacity
C15_MonotoneBelowCap ==
    Returned("compute_waiting_time") =>
        \A c \in ComputeWaitingTimeCalls :
            (/\ c.capacity = fn_in.capacity
             /\ c.current_queue = fn_in.current_queue
             /\ c.lam >= fn_in.lam /\ c.lam * 100 < c.capacity * 99)
                => fn_out <= compute_waiting_time(c.lam, c.capacity,
                                                  c.current_queue)

(***************************************************************************)
(* Crew travel times.                                                      *)
(***************************************************************************)
\* the locations _calculate_travel_time finds a floor for
KnownLocations == Restrooms \cup {"Base_1", "Base_2", "Base_3"}

\* the floors of the known locations, and floor 1 for any other
FloorOrFirst(loc) ==
    IF loc \in Restrooms THEN restrooms[loc].floor
    ELSE IF loc = "Base_2" THEN 2
    ELSE IF loc = "Base_3" THEN 3
    ELSE 1

ByWaitingTime(w) == IF w > 120 THEN 5 ELSE IF w > 60 THEN 4 ELSE 0

C19_Pending(i) ==
    /\ cleaning_tasks[i].assigned_crew = <<>>
    /\ cleaning_tasks[i].completion_time = None
    /\ cleaning_tasks[i].required_time <= current_time + 1800

\* task a is offered the pool before task b
C19_Before(a, b) ==
    \/ a.priority > b.priority
    \/ /\ a.priority = b.priority
       /\ a.deadline - current_time < b.deadline - current_time
    \/ /\ a.priority = b.priority
       /\ a.deadline = b.deadline
       /\ a.passenger_impact_score > b.passenger_impact_score

\* the pending task got crew in this step
C19_Given(i) == C19_Pending(i) /\ cleaning_tasks'[i].assigned_crew # <<>>

\* the pending task could have taken crew member c at the start of this step
C19_CouldTake(i, c) ==
    LET task == cleaning_tasks[i]
        slots == AvailableSlots(Bundle, task)
    IN  /\ slots > 0
        /\ _determine_optimal_cleaner_count(task, slots, demand) > 0
        /\ _can_crew_handle_task(crew[c], task, current_time)

\* what a batch-assignment step does
C19_BatchStep ==
    pc = "batch" =>
        /\ \A i \in DOMAIN cleaning_tasks :
              ~C19_Pending(i) =>
                  cleaning_tasks'[i].assigned_crew = cleaning_tasks[i].assigned_crew
        /\ \A i \in DOMAIN cleaning_tasks :
              C19_Given(i) =>
                  \A k \in DOMAIN cleaning_tasks'[i].assigned_crew :
                      _is_crew_available(crew[cleaning_tasks'[i].assigned_crew[k]],
                                         current_time)
        /\ \A i, j \in DOMAIN cleaning_tasks :
              (i # j /\ C19_Given(i) /\ C19_Given(j)) =>
                  Range(cleaning_tasks'[i].assigned_crew)
                    \cap Range(cleaning_tasks'[j].assigned_crew) = {}
        /\ \A a, b \in DOMAIN cleaning_tasks :
              (/\ C19_Pending(a) /\ C19_Pending(b)
               /\ C19_Before(cleaning_tasks[a], cleaning_tasks[b])
               /\ C19_Given(b) /\ ~C19_Given(a)) =>
                  \A c \in Range(cleaning_tasks'[b].assigned_crew) :
                      ~C19_CouldTake(a, c)

\* C19: in a batch-assignment step only pending tasks (unassigned, not
\* completed, required within 1800 s of now) get crew, from the crew available
\* at the start of the step; the tasks are offered the pool by descending
\* priority, then ascending time to deadline, then descending passenger
\* impact, so a task never gets a crew member that a task before it in this
\* order was left without and could have taken; and no crew member is given to
\* two tasks in the step.
C19_BatchAssignmentOrder == [][C19_BatchStep]_vars

\* the time at which crew member c was sent to the task it is travelling to
C19_SentAt(c, task) ==
    ((crew[c].current_task_end_time - task.estimated_duration * 60 - 180)
        \div Dt) * Dt

\* the step before was a batch assignment in which a task that only the batch
\* assignment staffs got a crew member, and a pending task behind it in the
\* order, of a restroom with a free slot, got none
C19_Witness ==
    /\ pc \in {"update", "done"}
    /\ t >= 1
    /\ \E a, b \in DOMAIN cleaning_tasks : \E c \in Crew :
          LET ta == cleaning_tasks[a]
              tb == cleaning_tasks[b]
              prev == current_time - Dt
          IN  /\ ta.priority < 3
              /\ ta.completion_time = None /\ tb.completion_time = None
              /\ \/ ta.priority > tb.priority
                 \/ ta.priority = tb.priority /\ ta.deadline < tb.deadline
                 \/ /\ ta.priority = tb.priority /\ ta.deadline = tb.deadline
                    /\ ta.passenger_impact_score > tb.passenger_impact_score
              /\ InSeq(c, ta.assigned_crew)
              /\ job[c] = a
              /\ crew[c].status = "traveling"
              /\ C19_SentAt(c, ta) = prev
              /\ tb.assigned_crew = <<>>
              /\ tb.created_time <= prev
              /\ tb.required_time <= prev + 1800
              /\ active_cleanings[tb.restroom_id] = <<>>

(***************************************************************************)
(* Preemption and priority.                                                *)
(***************************************************************************)
\* C20: whenever a crew member is preempted for an urgent task, the task the
\* member is taken off has a strictly lower priority than the urgent task; a
\* member working on a task of equal or higher priority is never preempted.
C20_PreemptionRespectsPriority ==
    /\ \A k \in Interruptions :
          cleaning_tasks[preemptions[k].task].priority
              < cleaning_tasks[preemptions[k].urgent_task].priority
    /\ \A k \in DOMAIN preemptions :
          preemptions[k].working_on # 0 =>
              cleaning_tasks[preemptions[k].working_on].priority
                  < cleaning_tasks[preemptions[k].urgent_task].priority

\* a crew member has been taken off a task for an urgent task
C20_Witness ==
    \E k \in Interruptions :
        /\ preemptions[k].urgent_task # preemptions[k].task
        /\ InSeq(preemptions[k].crew, preemptions[k].previous_crew)
        /\ ~InSeq(preemptions[k].crew, preemptions[k].assigned_crew)
        /\ preemptions[k].urgent_crew = <<preemptions[k].crew>>
        /\ preemptions[k].working_on = preemptions[k].task

(***************************************************************************)
(* The team size of the batch assignment.                                  *)
(***************************************************************************)
\* free cleaner slots of the restroom of pending task i at the start of the step
C21_Slots(i) == AvailableSlots(Bundle, cleaning_tasks[i])

\* the target team size of pending task i in this step
C21_Target(i) ==
    _determine_optimal_cleaner_count(cleaning_tasks[i], C21_Slots(i), demand)

\* the team a batch step gives a task is within the free slots and the target
C21_TeamWithinTarget ==
    \A i \in DOMAIN cleaning_tasks :
        C19_Given(i) =>
            /\ Len(cleaning_tasks'[i].assigned_crew) <= C21_Slots(i)
            /\ Len(cleaning_tasks'[i].assigned_crew) <= C21_Target(i)

C21_StepAsStated ==
    pc = "batch" =>
        /\ C21_TeamWithinTarget
        /\ \A i \in DOMAIN cleaning_tasks :
              (C19_Pending(i) /\ C21_Slots(i) > 0) =>
                  IF cleaning_tasks[i].priority >= 4
                  THEN C21_Target(i) = Min2(2, C21_Slots(i))
                  ELSE C21_Target(i) = 1

C21_TargetByDemand(priority, lam, slots) ==
    IF lam < 25 THEN 1
    ELSE IF lam > 50 THEN (IF priority >= 3 THEN 1 ELSE 0)
    ELSE Min2(2, slots)

C21_Step ==
    pc = "batch" =>
        /\ C21_TeamWithinTarget
        /\ \A i \in DOMAIN cleaning_tasks :
              (C19_Pending(i) /\ C21_Slots(i) > 0) =>
                  IF cleaning_tasks[i].priority >= 4
                  THEN C21_Target(i) = Min2(2, C21_Slots(i))
                  ELSE C21_Target(i) =
                         C21_TargetByDemand(cleaning_tasks[i].priority,
                             demand[cleaning_tasks[i].restroom_id].lam,
                             C21_Slots(i))

C22_Lacking(config) ==
    (Range(required_keys) \ config.keys)
      \cup (Range(required_flight_keys) \ config.flight)
      \cup (Range(required_restroom_keys) \ config.restroom)
      \cup (Range(required_entry_keys) \ config.entry)

C23_ArrivalRateNonNegative ==
    \A section_id \in Sections :
        \A i \in DOMAIN lambda_r[section_id] : lambda_r[section_id][i] >= 0

\* two time steps and more have been simulated and positive arrival rates are
\* stored for two different steps
C23_Witness ==
    /\ t_idx >= 2
    /\ \E section_id \in Sections :
          \E i, j \in DOMAIN lambda_r[section_id] :
              /\ i < j
              /\ lambda_r[section_id][i] > 0
              /\ lambda_r[section_id][j] > 0

(***************************************************************************)
(* The bounds of the supplies.                                             *)
(***************************************************************************)
\* C24: the supplies of every crew member stay between 0 and 100 percent,
\* whatever tasks were completed, supplies consumed and restocks made.
C24_SupplyBounds ==
    \A c \in Crew :
        /\ crew[c].supplies_remaining >= 0
        /\ crew[c].supplies_remaining <= 1000

\* one crew member has used supplies and another has restocked after work
C24_Witness ==
    /\ \E c \in Crew :
          /\ crew[c].supplies_remaining < 1000
          /\ crew[c].total_work_time > 0
    /\ \E c \in Crew :
          /\ crew[c].supplies_remaining = 1000
          /\ crew[c].total_work_time > 0

(***************************************************************************)
(* The stability report.                                                   *)
(***************************************************************************)
\* is x an element of the sequence s, and how often?
C25_Times(s, x) == Cardinality({i \in DOMAIN s : s[i] = x})

\* the largest arrival rate of the section in the call
C25_Peak(sec) ==
    CHOOSE m \in Range(fn_in.lam[sec]) : \A x \in Range(fn_in.lam[sec]) : x <= m

C27_LogitDegeneracy ==
    (/\ Returned("assign_flows_logit")
     /\ fn_in.theta = 0 /\ fn_in.keys # <<>> /\ fn_in.total_flow > 0) =>
        \A r \in Range(fn_in.keys) :
            fn_out[r] = fn_in.total_flow \div Len(fn_in.keys)

\* three candidates of different costs got a third of the flow each
C27_Witness ==
    /\ Returned("assign_flows_logit")
    /\ fn_in.theta = 0
    /\ Len(fn_in.keys) = 3
    /\ fn_in.total_flow = 1000
    /\ \E r, q \in Range(fn_in.keys) : fn_in.costs[r] # fn_in.costs[q]
    /\ \A r \in Range(fn_in.keys) : fn_out[r] = 333

(***************************************************************************)
(* Crew exclusivity.                                                       *)
(***************************************************************************)
\* the tasks not yet completed that list crew member c
C28_OpenTasksOf(c) ==
    {i \in DOMAIN cleaning_tasks :
        /\ cleaning_tasks[i].completion_time = None
        /\ InSeq(c, cleaning_tasks[i].assigned_crew)}

C29_EndOfStep == pc \in {"update", "done"}

\* the ids of the tasks at restroom r that have assigned crew and are not
\* completed
C29_AtWork(r) ==
    {cleaning_tasks[i].task_id : i \in
        {j \in DOMAIN cleaning_tasks :
            /\ cleaning_tasks[j].restroom_id = r
            /\ cleaning_tasks[j].assigned_crew # <<>>
            /\ cleaning_tasks[j].completion_time = None}}

\* C29: at the end of every time step active_cleanings[r] holds exactly the ids
\* of the tasks at r that have assigned crew and no completion time, each id
\* once; a task whose crew was preempted away occupies no slot.
C29_ActiveCleaningBookkeeping ==
    C29_EndOfStep =>
        \A r \in Restrooms :
            /\ Range(active_cleanings[r]) = C29_AtWork(r)
            /\ Len(active_cleanings[r]) = Cardinality(C29_AtWork(r))

\* the part that holds: every task at work is in the list of its restroom
C29_AtWorkListed ==
    C29_EndOfStep =>
        \A r \in Restrooms : C29_AtWork(r) \subseteq Range(active_cleanings[r])

(***************************************************************************)
(* Completion liveness.  The loop of run_optimization goes on to its last  *)
(* time step: every step of the run is taken.                              *)
(***************************************************************************)
C30_Phases == {"update", "detect", "reassign", "batch", "done"}

\* a step of the loop: every step of Next moves pc on, and Next is enabled
\* exactly while pc # "done"
LoopProceeds == pc # "done" /\ pc' \in C30_Phases \ {pc}

SpecLive == Spec /\ WF_pc(LoopProceeds)

\* positions of the task list of a run
C30_Positions == 1..(Len(_schedule_routine_cleanings(<<>>, 1)) + 2 * (MaxEvents + 1))

\* the time of the last time step of the run
C30_LastTime == (Min2(NSteps, NumTimeSteps) - 1) * Dt

\* task i has crew and is not completed
C30_InHand(i) ==
    /\ i \in DOMAIN cleaning_tasks
    /\ cleaning_tasks[i].assigned_crew # <<>>
    /\ cleaning_tasks[i].completion_time = None

\* task i is marked completed and is in completed_tasks
C30_Completed(i) ==
    /\ i \in DOMAIN cleaning_tasks
    /\ cleaning_tasks[i].completion_time # None
    /\ InSeq(i, completed_tasks)

\* the crew of task i was preempted away
C30_Preempted(i) ==
    /\ i \in DOMAIN cleaning_tasks
    /\ cleaning_tasks[i].assigned_crew = <<>>

\* the run is over and a crew member of task i is busy beyond its last step
C30_BeyondHorizon(i) ==
    /\ pc = "done"
    /\ i \in DOMAIN cleaning_tasks
    /\ \E k \in DOMAIN cleaning_tasks[i].assigned_crew :
          crew[cleaning_tasks[i].assigned_crew[k]].current_task_end_time
              > C30_LastTime

\* C30: every task that has been assigned to crew and is not preempted is
\* eventually marked completed and moved to completed_tasks, provided the run
\* has a time step at or after the busy-until times of all its crew members.
C30_CompletionLiveness ==
    \A i \in C30_Positions :
        C30_InHand(i) ~> (C30_Completed(i) \/ C30_Preempted(i) \/ C30_BeyondHorizon(i))

\* a task was assigned, its crew's times have passed, and it is completed at
\* the first step after them
C30_Witness ==
    /\ pc = "detect"
    /\ \E i \in DOMAIN cleaning_tasks :
          /\ C30_Completed(i)
          /\ cleaning_tasks[i].completion_time = current_time
          /\ cleaning_tasks[i].priority >= 4

\* the time of the last call of update_crew_status
C30_LastUpdate ==
    IF pc \in {"update", "done"} THEN (t - 1) * Dt ELSE current_time

\* the same as a state property: after each call of update_crew_status every
\* task with crew that is not completed has a member busy beyond that call
C30_NoTaskLeftBehind ==
    \A i \in DOMAIN cleaning_tasks :
        C30_InHand(i) =>
            \E k \in DOMAIN cleaning_tasks[i].assigned_crew :
                crew[cleaning_tasks[i].assigned_crew[k]].current_task_end_time
                    > C30_LastUpdate

(***************************************************************************)
(* Work-time accounting.  total_work_time is in 1/6 minute.                *)
(***************************************************************************)
\* task i is completed by this step
C31_CompletedNow(i) ==
    /\ i \in DOMAIN cleaning_tasks
    /\ cleaning_tasks[i].completion_time = None
    /\ cleaning_tasks'[i].completion_time # None

\* member c is credited its share of task i and consumes the supplies of one
\* cleaning of its type (a restock trip may follow at once)
C31_Credited(c, i) ==
    LET task == cleaning_tasks[i]
    IN  /\ crew'[c].total_work_time - crew[c].total_work_time
               = (6 * task.estimated_duration) \div Len(task.assigned_crew)
        /\ crew'[c].supplies_remaining
               \in {_consume_supplies(crew[c], task), 1000}
        /\ _consume_supplies(crew[c], task) < supplies_per_cleaning
               => crew'[c].supplies_remaining = 1000

\* the work time credited for task i by this step
RECURSIVE C31_CreditedFor(_, _)
C31_CreditedFor(team, k) ==
    IF k > Len(team) THEN 0
    ELSE (crew'[team[k]].total_work_time - crew[team[k]].total_work_time)
           + C31_CreditedFor(team, k + 1)

C31_Step ==
    \A i \in DOMAIN cleaning_tasks :
        C31_CompletedNow(i) =>
            /\ \A k \in DOMAIN cleaning_tasks[i].assigned_crew :
                  C31_Credited(cleaning_tasks[i].assigned_crew[k], i)
            /\ C31_CreditedFor(cleaning_tasks[i].assigned_crew, 1)
                  = 6 * cleaning_tasks[i].estimated_duration

\* C31: for every completed task each member of its team is credited work time
\* for it once (estimated_duration divided by the team size) and consumes
\* supplies for it once, so the credited work time sums to estimated_duration.
C31_WorkTimeAccounting == [][C31_Step]_vars

\* the part that holds: the member whose turn completes the task is credited
C31_FirstMemberStep ==
    \A i \in DOMAIN cleaning_tasks :
        C31_CompletedNow(i) =>
            \E k \in DOMAIN cleaning_tasks[i].assigned_crew :
                /\ C31_Credited(cleaning_tasks[i].assigned_crew[k], i)
                /\ \A j \in DOMAIN cleaning_tasks[i].assigned_crew :
                      cleaning_tasks[i].assigned_crew[k]
                          <= cleaning_tasks[i].assigned_crew[j]

C31_FirstMemberCredited == [][C31_FirstMemberStep]_vars

(***************************************************************************)
(* Qualification of the crew members that are given a task.                *)
(***************************************************************************)
\* member k of the executed entry e held the supplies of the task's cleaning
\* type and could complete the task by its deadline, extended by 1800 s for a
\* priority of 4 or more
C32_Qualified(e, k) ==
    LET task == cleaning_tasks[e.task]
        completion_time ==
            e.time + _calculate_travel_time(e.from[k], task.restroom_id)
                   + task.estimated_duration * 60
    IN  /\ e.supplies[k] >= SuppliesFor(task.cleaning_type)
        /\ completion_time
              <= task.deadline + (IF task.priority >= 4 THEN 1800 ELSE 0)

\* C32: a crew member is given a task (idle assignment, batch assignment or
\* preemption) only with enough supplies for the task's cleaning type and an
\* estimated completion time (now + travel time + task duration) within the
\* task's deadline, extended by 1800 s when the priority is 4 or more.
C32_Qualification ==
    \A i \in DOMAIN executed :
        \A k \in DOMAIN executed[i].crew_ids : C32_Qualified(executed[i], k)

\* a run with a preemption, an assignment of a team, and a member that was
\* sent with less than a full load of supplies
C32_Witness ==
    /\ \E i \in DOMAIN executed : executed[i].interrupted # 0
    /\ \E i \in DOMAIN executed : Len(executed[i].crew_ids) = 2
    /\ \E i \in DOMAIN executed :
          \E k \in DOMAIN executed[i].crew_ids : executed[i].supplies[k] < 1000

(***************************************************************************)
(* The shift window of the crew members that are given a task.             *)
(***************************************************************************)
\* the crew of a configuration file in which the shift of the first member
\* ends half an hour into the run ("shift_end_hours": 0.5)
C33_ShortShiftCrew == [_initialize_crew EXCEPT ![1].shift_end = 1800]

\* the run of an optimizer constructed from that configuration
InitShortShift == OptInitWith(C33_ShortShiftCrew) /\ SimIdle /\ FnIdle

SpecShortShift == InitShortShift /\ [][Next]_vars

C33_OnShift(c, time) == crew[c].shift_start <= time /\ time <= crew[c].shift_end

\* C33: no crew member is ever given a new task (by idle assignment, batch
\* assignment or preemption) at a time outside their shift window
\* [shift_start, shift_end].
C33_ShiftWindow ==
    \A i \in DOMAIN executed :
        \A k \in DOMAIN executed[i].crew_ids :
            C33_OnShift(executed[i].crew_ids[k], executed[i].time)

\* idle and batch assignments, which interrupt no task, keep to the shift
\* window
C33_ShiftWindowUnlessPreempted ==
    \A i \in DOMAIN executed :
        executed[i].interrupted = 0
            => \A k \in DOMAIN executed[i].crew_ids :
                   C33_OnShift(executed[i].crew_ids[k], executed[i].time)

(***************************************************************************)
(* The deferral of a task that was taken from its crew.                    *)
(***************************************************************************)
\* entry m of the log gives the task to a crew again that entry j interrupted
C34_AssignedAgain(j, m) ==
    /\ j < m
    /\ executed[j].interrupted # 0
    /\ executed[m].task = executed[j].interrupted

\* C34: after a task is preempted at time t and re-queued with its
\* required_time deferred, it is not assigned to any crew member again in the
\* same time step nor at any time before t + 1800 s.
C34_Deferral ==
    \A j, m \in DOMAIN executed :
        C34_AssignedAgain(j, m) => executed[m].time >= executed[j].time + 1800

(***************************************************************************)
(* The log of the assignments in the results of run_optimization.          *)
(***************************************************************************)
\* the log holds an event of the time of the assignment that maps the task to
\* the crew it was given to
C35_Logged(log, e) ==
    \E v \in DOMAIN log :
        /\ log[v].time = e.time
        /\ \E a \in DOMAIN log[v].assignments :
              /\ log[v].assignments[a].task_id = e.task_id
              /\ log[v].assignments[a].crew_ids = e.crew_ids

\* C35: every assignment executed during run_optimization, including the
\* immediate assignments and preemptions made for urgent tasks, appears as a
\* time-stamped task -> crew-list event in the result's crew_assignments.
C35_AssignmentLogComplete ==
    \A i \in DOMAIN executed : C35_Logged(crew_assignments, executed[i])

\* the assignments of a batch are in the log when the batch has been executed
C35_BatchStep ==
    pc = "batch" /\ pc' # "batch"
        => \A i \in DOMAIN executed' :
               i > Len(executed) => C35_Logged(crew_assignments', executed'[i])

C35_BatchLoggedWhenMade == [][C35_BatchStep]_vars

(***************************************************************************)
(* Conservation of the flows in the simulator.                             *)
(***************************************************************************)
\* the flow of one gender that enters at time step t_idx: half of the inflow
\* of each entry point, in whole 1/1000 pax/s
C36_HalfInflow ==
    SumOf(EntryIds, [e \in Range(EntryIds) |-> entry_inflows[e] \div 2], 1)

\* the arrival rates of the step at the sections of a gender, summed
C36_Arriving(gender) ==
    SumOf(gender_sections(gender),
          [section_id \in Sections |-> lambda_r[section_id][t_idx]], 1)

C36_Assigned == sim_pc \in {"queue", "wait"}

\* C36: after the iterative flow assignment of time step t, for each gender the
\* sum of lambda[s][t] over that gender's sections equals half of the total
\* entry inflow at t: nothing is lost, duplicated or carried over between the
\* iterations, and nothing goes to a section of the other gender (each share
\* is rounded down to 1/1000 pax/s here, so the sum is short of the half by
\* less than 1/1000 pax/s per entry point and section).
C36_SimulatorFlowConservation ==
    C36_Assigned =>
        \A gender \in {"M", "F"} :
            /\ C36_Arriving(gender) <= C36_HalfInflow
            /\ C36_Arriving(gender)
                  > C36_HalfInflow
                    - Len(EntryIds) * Len(gender_sections(gender))

\* both entry points had an inflow, the loop took several iterations and the
\* flow of a gender was split among two sections
C36_Witness ==
    /\ C36_Assigned
    /\ iteration >= 2
    /\ \A e \in Range(EntryIds) : entry_inflows[e] > 100
    /\ \E a, b \in Sections :
          /\ a # b /\ a.gender = b.gender
          /\ lambda_r[a][t_idx] > 0 /\ lambda_r[b][t_idx] > 0

(***************************************************************************)
(* The rule of the queue update.                                           *)
(***************************************************************************)
\* L[t] + dt * (lambda[t] - capacity * min(1, L[t] / 2)), in 1/1000 pax
C37_Rule(section_id, time_step) ==
    LET current == L_r[section_id][time_step]
    IN  current + dt * lambda_r[section_id][time_step]
        - (dt * get_section_capacity(section_id) * Min2(2000, current)) \div 2000

C37_Stored(section_id, time_step) ==
    IF C37_Rule(section_id, time_step) < 10 THEN 0
    ELSE C37_Rule(section_id, time_step)

C37_UpdateStep ==
    (sim_pc = "queue" /\ sim_pc' = "wait" /\ t_idx < n_steps - 1)
        => \A section_id \in Sections :
              /\ L_r'[section_id][t_idx + 1] = C37_Stored(section_id, t_idx)
              /\ L_r[section_id][t_idx] = 0
                    => L_r'[section_id][t_idx + 1]
                       = IF dt * lambda_r[section_id][t_idx] < 10 THEN 0
                         ELSE dt * lambda_r[section_id][t_idx]

C37_ZeroOrAboveThreshold ==
    \A section_id \in Sections : \A i \in 0..(n_steps - 1) :
        L_r[section_id][i] = 0 \/ L_r[section_id][i] >= 10

\* C37: update_queue_states(t, dt) sets L[t+1] = L[t] + dt * (lambda[t] -
\* capacity * min(1, L[t] / 2)), serves nothing when L[t] is 0, and stores 0
\* for a result below 0.01, so every stored queue length is 0 or at least
\* 0.01 pax.
C37_QueueUpdateRule == []C37_ZeroOrAboveThreshold /\ [][C37_UpdateStep]_vars

\* a queue update computed one queue that was served at a part of the capacity
\* and stored, and another that came out below the threshold and was stored
\* as 0
C37_Witness ==
    /\ sim_pc = "wait" /\ t_idx < n_steps - 1
    /\ \E section_id \in Sections :
          /\ L_r[section_id][t_idx] > 0 /\ L_r[section_id][t_idx] < 2000
          /\ L_r[section_id][t_idx + 1] >= 10
    /\ \E section_id \in Sections :
          /\ raw_queue[section_id] < 10 /\ raw_queue[section_id] # 0
          /\ L_r[section_id][t_idx + 1] = 0

(***************************************************************************)
(* What a step of the simulator writes.                                    *)
(***************************************************************************)
C38_FrameStep ==
    \A section_id \in Sections :
        /\ \A i \in 0..(n_steps - 1) :
              /\ i # t_idx =>
                    /\ lambda_r'[section_id][i] = lambda_r[section_id][i]
                    /\ w_r'[section_id][i] = w_r[section_id][i]
              /\ i # t_idx + 1 => L_r'[section_id][i] = L_r[section_id][i]
        /\ t_idx >= n_steps - 1 => L_r'[section_id] = L_r[section_id]

\* C38: processing time step t modifies only lambda[.][t], w[.][t] and
\* L[.][t+1]; the arrival rates, queue lengths and waiting times stored for
\* the other steps are left unchanged, and update_queue_states changes nothing
\* at the final step (t >= n_steps - 1).
C38_SimulatorStepFrame == [][C38_FrameStep]_vars

\* the queue update of the final step has been passed with arrivals and a queue
\* at a section, and values of earlier steps are stored
C38_Witness ==
    /\ sim_pc = "wait" /\ t_idx = n_steps - 1
    /\ \E section_id \in Sections :
          /\ lambda_r[section_id][t_idx] > 0
          /\ L_r[section_id][t_idx] > 0
          /\ w_r[section_id][t_idx - 1] > 0

(***************************************************************************)
(* The ids of the tasks.                                                   *)
(***************************************************************************)
\* run_optimization called up to MaxRuns times on the optimizer
NextRerun == Next \/ RunAgain

SpecRerun == Init /\ [][NextRerun]_vars

C39_Distinct(tasks) ==
    \A i, j \in DOMAIN tasks : i # j => tasks[i].task_id # tasks[j].task_id

\* C39: the task ids in cleaning_tasks are pairwise distinct after any
\* sequence of task creations (routine scheduling at construction, usage-based,
\* call-in and emergency creation), also when run_optimization is called more
\* than once on the same optimizer.
C39_TaskIdUniqueness == C39_Distinct(cleaning_tasks)

\* the ids are distinct as long as run_optimization has been called once
C39_UniqueInFirstRun == run = 1 => C39_Distinct(cleaning_tasks)

=============================================================================
